---- MODULE Spec2Model ----
(***************************************************************************)
(* A model of the Norn monitoring engine: the session store and its merge  *)
(* (norn/core/audit_logger.py), the session endpoints                      *)
(* (norn/routers/sessions.py), the atomic write (norn/shared.py), the      *)
(* step analyzer (norn/core/step_analyzer.py), the session judge           *)
(* (norn/agents/quality_evaluator.py) and the interception pipeline        *)
(* (norn/core/interceptor.py).                                             *)
(*                                                                         *)
(* JSON values are tagged records, so that values of different JSON types  *)
(* can be compared: null, strings, integers, booleans, lists and maps.     *)
(* A session file and a step are Python dicts: functions from key strings  *)
(* to JSON values.                                                         *)
(***************************************************************************)
EXTENDS Integers, Sequences, FiniteSets, TLC

VARIABLES
    \* ---- the session store (one session file) ----
    file,        \* content of sessions/{session_id}.json, or NoFile
    prevFile,    \* the file as it was before the last store operation
    lastOp,      \* the last store operation and its input
    nOps,        \* number of store operations so far
    nextId       \* the next fresh step_id (uuid4 in the code)

storeVars == <<file, prevFile, lastOp, nOps, nextId>>

VARIABLES
    \* ---- one put_session call at the level of its I/O operations ----
    disk,        \* the file sessions/{session_id}.json: whether it exists, its bytes
    tmpFile,     \* the mkstemp file of the call
    wpc,         \* where the writer is: idle, read, created, written, crashed
    wdata,       \* the JSON document the call writes
    before,      \* bytes of the session file when the call started
    readerSaw,   \* what the last read of the session file returned
    nPuts        \* put_session calls started so far

atomicVars == <<disk, tmpFile, wpc, wdata, before, readerSaw, nPuts>>

VARIABLES
    \* ---- two writers of one session file (they share file, nOps, nextId) ----
    writers,     \* per writer: its operation, and the content it read
    appended,    \* step ids whose step request has returned "ok"
    removed      \* step ids whose delete-step request has returned

raceVars == <<writers, appended, removed>>

VARIABLES
    \* ---- the tool_input of one AfterToolCallEvent ----
    rawInput,    \* event.tool_use["input"]
    stepInput,   \* StepRecord.tool_input of the step appended to _steps
    sentInput,   \* "tool_input" of the payload POSTed to /step
    streaming    \* _norn_url and _registered_agent_id are set

maskVars == <<rawInput, stepInput, sentInput, streaming>>

VARIABLES
    \* ---- one NornHook and the agent it observes (it shares file, nextId) ----
    config,              \* mode, enable_ai_eval: the constructor's arguments
    task,                \* self.task is set
    hpc,                 \* new, running, evaluating (the eval thread runs), done
    _step_counter,
    _steps,
    _issues,
    _loop_detected,
    analyzer,            \* the StepAnalyzer's _recent_steps, _tool_counter, _input_hashes
    inFlight,            \* tool calls between their BeforeToolCallEvent and AfterToolCallEvent
    _steps_to_evaluate,
    _session_report,
    judged               \* what the session judge did in _run_ai_evaluation

hookVars == <<config, task, hpc, _step_counter, _steps, _issues, _loop_detected,
              analyzer, inFlight, _steps_to_evaluate, _session_report, judged>>

VARIABLES
    \* ---- the hook's thresholds and the tool calls it has seen ----
    params,      \* max_steps, loop_window, loop_threshold, max_same_tool of the constructor
    trace        \* per BeforeToolCallEvent: the call, what analyze_step returned,
                 \* event.cancel_tool, and how the call ended

guardVars == <<params, trace>>

VARIABLES
    \* ---- a hook that streams to the dashboard, run after run (it shares file,
    \*      nextId, streaming and the hook's variables) ----
    _existing_step_count,
    resumedFrom,   \* what the ingest response of the run held: the stored steps' numbers
    nRuns          \* invocations started so far

resumeVars == <<_existing_step_count, resumedFrom, nRuns>>

VARIABLES
    \* ---- the dashboard's endpoints behind the API key (they share file, prevFile) ----
    API_KEY,             \* NORN_API_KEY, "" when unset
    active_connections,  \* manager.active_connections: the subscribed WebSocket clients
    request              \* the last request: its endpoint, the key it carried, the answer

authVars == <<API_KEY, active_connections, request>>

VARIABLES
    \* ---- normalize_session applied to a session, and to its own result ----
    normClock,   \* datetime.now() of both calls, in minutes
    normInput,   \* the session dict handed to the first call
    normOnce,    \* normalize_session(session)
    normTwice    \* normalize_session(normalize_session(session))

normVars == <<normClock, normInput, normOnce, normTwice>>

VARIABLES
    \* ---- a hook whose collaborators may fail, and its evaluation thread (it
    \*      shares file, nextId, streaming and the hook's variables) ----
    env,          \* the on_issue callback, the store, the dashboard, the judge's construction
    worker,       \* the norn-eval thread of _on_session_end: none, running, done
    escaped,      \* the handler an exception has left towards the agent framework
    heuristic,    \* the report as the first _finalize_report of _on_session_end left it
    timedOut,     \* result(timeout=120) has raised TimeoutError
    fullResults,  \* per index of _steps: what the full tool result holds
    judgeCalls    \* the indexes of _steps in the order the per-step judge was called for them

evalVars == <<env, worker, escaped, heuristic, timedOut, fullResults, judgeCalls>>

VARIABLES
    runner,        \* position of _execute_agent_background: "idle", "waiting", "timedout", "crashed", "completed"
    runSession,    \* the runner's in-memory `session` dict, read from the file at the start
    agentThread,   \* position of the norn-agent thread: "none", "running", "finalized", "evaluated", "returned", "raised"
    hookReport     \* what the agent's hook has collected: [rep, steps, issues]

runVars == <<runner, runSession, agentThread, hookReport>>

VARIABLES
    registryFile,    \* content of agents_registry.json: the list of agent entries
    _registry_lock,  \* the request thread holding the registry lock, 0 when free
    registerClock,   \* datetime.now() to the second
    registering,     \* per request thread: [pc, name, agents] of register_hook_agent
    registrations,   \* the entries the register requests have returned, in order
    nRegisters       \* register requests made

regVars == <<registryFile, _registry_lock, registerClock, registering, registrations, nRegisters>>

VARIABLES
    \* ---- a hook that streams to the dashboard while its audit logger writes the
    \*      dashboard's session file (it shares file, nextId and streaming) ----
    opc,        \* the hook's position: "new", "running", "evaluating", "done", "raised"
    produced,   \* the step numbers in the order _on_after_tool appended them to _steps
    broadcasts  \* the step numbers in the order add_session_step broadcast them

orderVars == <<opc, produced, broadcasts>>

VARIABLES
    \* ---- one broadcast of the ConnectionManager while WebSocket clients connect
    \*      and disconnect (it shares active_connections) ----
    bpc,            \* position of broadcast: "idle", "next", "sending", "done", "raised"
    si_used,        \* the size of the set when the for loop made its iterator
    pending,        \* the connections the iterator has still to yield
    sending,        \* the connection whose send_json is awaited, 0 when none
    disconnected,   \* broadcast's local set of connections whose send failed
    sendOk,         \* the connections whose send succeeded in this broadcast
    leftMeanwhile,  \* the connections whose own handler disconnected them during the broadcast
    nConnects       \* connections accepted so far

bcVars == <<bpc, si_used, pending, sending, disconnected, sendOk, leftMeanwhile, nConnects>>

VARIABLES
    \* ---- a get_session request beside the requests that change or delete the
    \*      session file (it shares the store's variables) ----
    gpc,      \* position of get_session: "idle", "exists"
    answer,   \* its last answer: [code, missing], missing when open found no file
    nReads    \* get_session requests answered

readVars == <<gpc, answer, nReads>>

\* Agent runs of the dashboard: the registry status of the agent, the runner
\* threads, and the process-wide state they share (src/norn/execution/runner.py)
VARIABLES
    agentStatus,    \* "status" of the agent's entry in agents_registry.json
    executions,     \* per run: position, session dict, _original_cwd, _added_sys_paths
    cwd,            \* os.getcwd()
    _chdir_lock,    \* 0 when free, else the run holding it
    sys_path        \* sys.path
execVars == <<agentStatus, executions, cwd, _chdir_lock, sys_path>>

\* Accesses to agents_registry.json from the routers and the runner
VARIABLES
    accessing,          \* per thread: the access it is in, and the list it has loaded
    expectedRegistry,   \* the registry when each mutation is applied in commit order
    nAccesses
accessVars == <<accessing, expectedRegistry, nAccesses>>

vars == <<storeVars, atomicVars, raceVars, maskVars, hookVars, guardVars, resumeVars, authVars, normVars, evalVars, runVars, regVars, orderVars, bcVars, readVars, execVars, accessVars>>

\* what the actions of one specification leave alone
exceptStore == <<atomicVars, raceVars, maskVars, hookVars, guardVars, resumeVars, authVars, normVars, evalVars, runVars, regVars, orderVars, bcVars, readVars, execVars, accessVars>>
exceptAtomic == <<storeVars, raceVars, maskVars, hookVars, guardVars, resumeVars, authVars, normVars, evalVars, runVars, regVars, orderVars, bcVars, readVars, execVars, accessVars>>
exceptRace == <<prevFile, lastOp, atomicVars, maskVars, hookVars, guardVars, resumeVars, authVars, normVars, evalVars, runVars, regVars, orderVars, bcVars, readVars, execVars, accessVars>>
exceptMask == <<storeVars, atomicVars, raceVars, hookVars, guardVars, resumeVars, authVars, normVars, evalVars, runVars, regVars, orderVars, bcVars, readVars, execVars, accessVars>>
exceptHook == <<prevFile, lastOp, nOps, atomicVars, raceVars, maskVars, guardVars, resumeVars, authVars, normVars, evalVars, runVars, regVars, orderVars, bcVars, readVars, execVars, accessVars>>
exceptGuard == <<prevFile, lastOp, nOps, atomicVars, raceVars, maskVars, resumeVars, authVars, normVars, evalVars, runVars, regVars, orderVars, bcVars, readVars, execVars, accessVars>>
exceptNorm == <<storeVars, atomicVars, raceVars, maskVars, hookVars, guardVars, resumeVars, authVars, evalVars, runVars, regVars, orderVars, bcVars, readVars, execVars, accessVars>>
exceptEval == <<prevFile, lastOp, nOps, atomicVars, raceVars, rawInput, stepInput, sentInput, guardVars, resumeVars, authVars, normVars, runVars, regVars, orderVars, bcVars, readVars, execVars, accessVars>>
exceptRun == <<prevFile, lastOp, nOps, nextId, atomicVars, raceVars, maskVars, hookVars, guardVars, resumeVars, authVars, normVars, evalVars, regVars, orderVars, bcVars, readVars, execVars, accessVars>>
exceptReg == <<storeVars, atomicVars, raceVars, maskVars, hookVars, guardVars, resumeVars, authVars, normVars, evalVars, runVars, orderVars, bcVars, readVars, execVars, accessVars>>
exceptOrder == <<prevFile, lastOp, nOps, atomicVars, raceVars, rawInput, stepInput, sentInput, hookVars, guardVars, resumeVars, authVars, normVars, evalVars, runVars, regVars, bcVars, readVars, execVars, accessVars>>
exceptBc == <<storeVars, atomicVars, raceVars, maskVars, hookVars, guardVars, resumeVars, API_KEY, request, normVars, evalVars, runVars, regVars, orderVars, readVars, execVars, accessVars>>
exceptRead == <<storeVars, atomicVars, raceVars, maskVars, hookVars, guardVars, resumeVars, authVars, normVars, evalVars, runVars, regVars, orderVars, bcVars, execVars, accessVars>>
exceptExec == <<storeVars, atomicVars, raceVars, maskVars, hookVars, guardVars, resumeVars, authVars, normVars, evalVars, runVars, regVars, orderVars, bcVars, readVars, accessVars>>
exceptAccess == <<storeVars, atomicVars, raceVars, maskVars, hookVars, guardVars, resumeVars, authVars, normVars, evalVars, runVars, registerClock, registering, registrations, nRegisters, orderVars, bcVars, readVars, execVars>>

----------------------------------------------------------------------------
(* Bounds of the model.                                                    *)

\* store operations in one behaviour of SpecStore
MaxOps == 3
\* steps carried by one report handed to write_session
MaxReportSteps == 2
\* step ids issued in one behaviour of SpecStore
MaxStepIds == 2
\* put_session calls in one behaviour of SpecAtomic
MaxPuts == 2
\* write operations started in one behaviour of SpecRace
MaxRaceOps == 4
\* nesting depth of the values inside a tool_input of SpecMask
MaxDepth == 2
\* get_session requests answered in one behaviour of SpecRead
MaxReads == 2
\* WebSocket clients accepted in one behaviour of SpecBroadcast
MaxConnects == 3
\* steps the hook produces in one behaviour of SpecOrder
MaxOrderSteps == 4
\* register requests in one behaviour of SpecReg
MaxRegisters == 3
\* seconds that pass in one behaviour of SpecReg
MaxRegisterSeconds == 1
\* BeforeToolCallEvents in one behaviour of Spec
MaxCalls == 2
\* tool calls the agent has in flight at once in Spec
MaxInFlight == 2
\* the hook's configuration in Spec (shared.py DEFAULT_CONFIG has 50, 5, 3, 10)
max_steps == 1
loop_window == 2
loop_threshold == 2
max_same_tool == 2
\* tool calls in one behaviour of SpecGuard
MaxGuardCalls == 6

----------------------------------------------------------------------------
(* JSON values.                                                            *)

JNull == [t |-> "null"]
JStr(s) == [t |-> "str", v |-> s]
JInt(n) == [t |-> "int", v |-> n]
JBool(b) == [t |-> "bool", v |-> b]
JList(s) == [t |-> "list", v |-> s]
JMap(f) == [t |-> "map", v |-> f]

EmptyDict == <<>>
NoFile == [nofile |-> TRUE]

\* dict.get(k): the value, or None when the key is absent
Get(d, k) == IF k \in DOMAIN d THEN d[k] ELSE JNull

\* d[k] = v
Put(d, k, v) == [x \in (DOMAIN d) \cup {k} |-> IF x = k THEN v ELSE d[x]]

\* Python truthiness of a JSON value: `not v`
Falsy(v) == v \in {JNull, JStr(""), JList(<<>>), JMap(EmptyDict), JInt(0), JBool(FALSE)}

\* `x or []` for a list-valued key
ListOr(v) == IF Falsy(v) THEN <<>> ELSE v.v

----------------------------------------------------------------------------
(* LocalFileStore.write_session: the field-level merge.                    *)

\* the test of audit_logger.py line 113
MutOverwritesField(v) == TRUE
OverwritesField(v) == v /= JNull /\ v /= JStr("") /\ v /= JList(<<>>)

\* lines 112-114: update one existing step from the new step with its id
MergeStep(tgt, s) ==
    [k \in (DOMAIN tgt) \cup (DOMAIN s) |->
        IF k \in DOMAIN s /\ OverwritesField(s[k]) THEN s[k] ELSE tgt[k]]

\* lines 100-104: step_id -> index of the (last) existing step with that id
ExistingById(existing_steps, sid) ==
    LET idx == {i \in 1..Len(existing_steps) : Get(existing_steps[i], "step_id") = sid}
    IN  IF idx = {} THEN 0 ELSE CHOOSE i \in idx : \A j \in idx : j <= i

\* lines 105-116: fold the new steps into the copy of the existing ones
RECURSIVE MergeSteps(_, _, _)
MergeSteps(existing_steps, merged, new_steps) ==
    IF new_steps = <<>> THEN merged
    ELSE LET s == Head(new_steps)
             sid == Get(s, "step_id")
             i == IF Falsy(sid) THEN 0 ELSE ExistingById(existing_steps, sid)
         IN  IF i > 0
             THEN MergeSteps(existing_steps,
                             [merged EXCEPT ![i] = MergeStep(merged[i], s)],
                             Tail(new_steps))
             ELSE MergeSteps(existing_steps, Append(merged, s), Tail(new_steps))

\* lines 90-92: the dashboard-added keys kept from the existing file
PreservedKeys == {"agent_id", "status"}

RECURSIVE PreserveKeys(_, _, _)
PreserveKeys(existing, new_data, keys) ==
    IF keys = {} THEN new_data
    ELSE LET key == CHOOSE k \in keys : TRUE
             nd == IF key \in DOMAIN existing /\ Falsy(Get(new_data, key))
                   THEN Put(new_data, key, existing[key])
                   ELSE new_data
         IN  PreserveKeys(existing, nd, keys \ {key})

\* lines 81-118: what write_session hands to the atomic write.  `existing` is
\* EmptyDict when there is no file.
MergedSession(existing, new_data) ==
    IF existing = EmptyDict THEN new_data
    ELSE LET nd == PreserveKeys(existing, new_data, PreservedKeys)
             existing_steps == ListOr(Get(existing, "steps"))
             new_steps == ListOr(Get(nd, "steps"))
         IN  IF existing_steps /= <<>>
             THEN LET merged == MergeSteps(existing_steps, existing_steps, new_steps)
                  IN  Put(Put(nd, "steps", JList(merged)), "total_steps", JInt(Len(merged)))
             ELSE nd

----------------------------------------------------------------------------
(* The session endpoints of norn/routers/sessions.py, as functions from    *)
(* the file's content to its next content.                                 *)

\* session.get("steps", [])
ListOrSteps(session) == IF "steps" \in DOMAIN session THEN session["steps"].v ELSE <<>>

\* dict.update(data)
Update(d, data) ==
    [k \in (DOMAIN d) \cup (DOMAIN data) |-> IF k \in DOMAIN data THEN data[k] ELSE d[k]]

\* ingest_session, lines 197-213: resume an existing session
MutResumedSession(existing, data) ==
    Put(Put(Put(existing, "status", JStr("active")), "ended_at", JNull), "steps", JList(<<>>))
ResumedSession(existing, data) ==
    LET e1 == Put(Put(existing, "status", JStr("active")), "ended_at", JNull)
        e2 == IF ~Falsy(Get(data, "task")) /\ Falsy(Get(e1, "task"))
              THEN Put(e1, "task", data["task"]) ELSE e1
        e3 == IF ~Falsy(Get(data, "swarm_id")) /\ Falsy(Get(e2, "swarm_id"))
              THEN Put(e2, "swarm_id", data["swarm_id"]) ELSE e2
    IN  e3

\* ingest_session, lines 217-251: create a new session
CreatedSession(data) ==
    [agent_id        |-> Get(data, "agent_id"),
     task            |-> Get(data, "task"),
     ended_at        |-> JNull,
     status          |-> JStr("active"),
     total_steps     |-> JInt(0),
     steps           |-> JList(<<>>),
     overall_quality |-> JStr("PENDING"),
     security_score  |-> JNull,
     swarm_id        |-> Get(data, "swarm_id")]

IngestSession(f, data) ==
    IF f /= NoFile THEN ResumedSession(f, data) ELSE CreatedSession(data)

\* add_session_step, lines 265-267 (the file exists)
AddSessionStep(session, data) ==
    LET steps == Append(IF "steps" \in DOMAIN session THEN session["steps"].v ELSE <<>>, data)
    IN  Put(Put(Put(session, "steps", JList(steps)),
                "total_steps", JInt(Len(steps))),
            "status", JStr("active"))

\* complete_session, lines 296-303 (the file exists)
CompleteSession(session, data) ==
    LET existing_steps == IF "steps" \in DOMAIN session THEN session["steps"] ELSE JList(<<>>)
        s1 == Update(session, data)
        s2 == IF Falsy(Get(data, "steps"))
              THEN Put(Put(s1, "steps", existing_steps),
                       "total_steps", JInt(Len(existing_steps.v)))
              ELSE s1
    IN  Put(s2, "status", IF "status" \in DOMAIN data THEN data["status"] ELSE JStr("completed"))

\* delete_step, line 343
RECURSIVE WithoutStep(_, _)
WithoutStep(steps, step_id) ==
    IF steps = <<>> THEN <<>>
    ELSE IF Get(Head(steps), "step_id") /= step_id
         THEN <<Head(steps)>> \o WithoutStep(Tail(steps), step_id)
         ELSE WithoutStep(Tail(steps), step_id)

\* delete_step, lines 342-348 (the file exists and the step is found)
DeleteStep(session, step_id) ==
    LET new_steps == WithoutStep(ListOrSteps(session), step_id)
    IN  Put(Put(session, "steps", JList(new_steps)), "total_steps", JInt(Len(new_steps)))

----------------------------------------------------------------------------
(* SpecStore: one session file under sequences of store operations whose   *)
(* inputs are drawn from small sets of the shapes the callers produce.     *)

\* step_id: str(uuid4())[:8], fresh for every StepRecord (schemas.py line 81)
StepId(n) == JStr(ToString(n))

\* _dashboard_send_step, interceptor.py lines 895-905: the streamed step
\* (tool_input is str(dict), the scores are not yet filled)
StreamedStep(n, input) ==
    [step_id         |-> StepId(n),
     step_number     |-> JInt(n),
     tool_input      |-> JStr(input),
     status          |-> JStr("SUCCESS"),
     relevance_score |-> JNull,
     reasoning       |-> JStr("")]

StreamedInputs == {"{}", "{'q': 1}"}

\* StepRecord.model_dump_json (schemas.py lines 78-92), before and after the
\* per-step evaluation fills the scores
ReportStepKinds == {"unevaluated", "evaluated", "irrelevant"}

ReportStep(n, kind) ==
    [step_id         |-> StepId(n),
     step_number     |-> JInt(n),
     tool_input      |-> IF kind = "evaluated" THEN JMap([q |-> JInt(1)]) ELSE JMap(EmptyDict),
     status          |-> JStr(IF kind = "irrelevant" THEN "IRRELEVANT" ELSE "SUCCESS"),
     relevance_score |-> CASE kind = "unevaluated" -> JNull
                           [] kind = "evaluated"   -> JInt(90)
                           [] OTHER                -> JInt(20),
     reasoning       |-> JStr(IF kind = "evaluated" THEN "ok" ELSE ""),
     metadata        |-> JMap(EmptyDict)]

\* SessionReport.model_dump_json (schemas.py lines 108-153): the heuristic
\* report of the first _finalize_report and the evaluated one of the second
ReportKinds == {"heuristic", "evaluated"}

Report(kind, steps) ==
    [task            |-> IF kind = "heuristic" THEN JNull ELSE JMap([description |-> JStr("t")]),
     ended_at        |-> JStr("t1"),
     total_steps     |-> JInt(Len(steps)),
     steps           |-> JList(steps),
     overall_quality |-> JStr(IF kind = "heuristic" THEN "PENDING" ELSE "GOOD"),
     security_score  |-> IF kind = "heuristic" THEN JNull ELSE JInt(90)]

\* the step lists a report may carry: steps with ascending distinct ids, the
\* ids already issued or fresh ones following them
ReportStepLists(next) ==
    LET ids == 1..next
        Lists(len) ==
            {q \in [1..len -> ids \X ReportStepKinds] :
                \A i \in 1..len : \A j \in 1..len : i < j => q[i][1] < q[j][1]}
    IN  UNION {{[i \in 1..len |-> ReportStep(q[i][1], q[i][2])] : q \in Lists(len)} :
               len \in 0..MaxReportSteps}

MaxIdIn(steps) ==
    IF steps = <<>> THEN 0
    ELSE CHOOSE n \in 1..MaxStepIds : steps[Len(steps)]["step_id"] = StepId(n)

\* the bodies of POST /api/sessions/ingest the hook sends (lines 869-879)
IngestBodies ==
    {[agent_id |-> JStr("ag1"), task |-> JStr(t), swarm_id |-> sw] :
        t \in {"", "t"}, sw \in {JNull, JStr("sw1")}}

\* the bodies of POST /api/sessions/{id}/complete (lines 925-946)
CompleteBodies ==
    {[ended_at |-> JStr("t2"), status |-> JStr("completed"), total_steps |-> JInt(n),
      overall_quality |-> JStr("GOOD"), security_score |-> sc, swarm_id |-> JNull] :
        n \in {0}, sc \in {JNull, JInt(40)}}

StoreInit ==
    /\ file = NoFile
    /\ prevFile = NoFile
    /\ lastOp = [op |-> "none"]
    /\ nOps = 0
    /\ nextId = 1

StoreIngest ==
    /\ nOps < MaxOps
    /\ \E data \in IngestBodies :
        /\ file' = IngestSession(file, data)
        /\ lastOp' = [op |-> "ingest", arg |-> data]
    /\ prevFile' = file
    /\ nOps' = nOps + 1
    /\ UNCHANGED nextId
    /\ UNCHANGED exceptStore

StoreAddStep ==
    /\ nOps < MaxOps
    /\ file /= NoFile
    /\ nextId <= MaxStepIds
    /\ \E input \in StreamedInputs :
        /\ file' = AddSessionStep(file, StreamedStep(nextId, input))
        /\ lastOp' = [op |-> "step", arg |-> StreamedStep(nextId, input)]
    /\ prevFile' = file
    /\ nOps' = nOps + 1
    /\ nextId' = nextId + 1
    /\ UNCHANGED exceptStore

StoreComplete ==
    /\ nOps < MaxOps
    /\ file /= NoFile
    /\ \E data \in CompleteBodies :
        /\ file' = CompleteSession(file, data)
        /\ lastOp' = [op |-> "complete", arg |-> data]
    /\ prevFile' = file
    /\ nOps' = nOps + 1
    /\ UNCHANGED nextId
    /\ UNCHANGED exceptStore

StoreDeleteStep ==
    /\ nOps < MaxOps
    /\ file /= NoFile
    /\ \E i \in 1..Len(ListOrSteps(file)) :
        LET step_id == Get(ListOrSteps(file)[i], "step_id")
        IN  /\ file' = DeleteStep(file, step_id)
            /\ lastOp' = [op |-> "delete_step", arg |-> step_id]
    /\ prevFile' = file
    /\ nOps' = nOps + 1
    /\ UNCHANGED nextId
    /\ UNCHANGED exceptStore

\* LocalFileStore.write_session(report), lines 77-131
StorePutSession ==
    /\ nOps < MaxOps
    /\ \E kind \in ReportKinds :
       \E steps \in ReportStepLists(IF nextId <= MaxStepIds THEN nextId ELSE MaxStepIds) :
        LET report == Report(kind, steps)
            existing == IF file = NoFile THEN EmptyDict ELSE file
        IN  /\ file' = MergedSession(existing, report)
            /\ lastOp' = [op |-> "put", arg |-> report]
            /\ nextId' = IF MaxIdIn(steps) >= nextId THEN MaxIdIn(steps) + 1 ELSE nextId
    /\ prevFile' = file
    /\ nOps' = nOps + 1
    /\ UNCHANGED exceptStore

AtomicIdle ==
    /\ disk = [exists |-> FALSE, bytes |-> <<>>]
    /\ tmpFile = [exists |-> FALSE, bytes |-> <<>>]
    /\ wpc = "idle" /\ wdata = EmptyDict
    /\ before = [exists |-> FALSE, bytes |-> <<>>]
    /\ readerSaw = [read |-> "never", content |-> [exists |-> FALSE, bytes |-> <<>>]]
    /\ nPuts = 0

StoreNext ==
    \/ StoreIngest
    \/ StoreAddStep
    \/ StoreComplete
    \/ StoreDeleteStep
    \/ StorePutSession

RaceIdle ==
    /\ writers = [w \in {1, 2} |-> [pc |-> "idle", op |-> "none", snap |-> NoFile, arg |-> JNull]]
    /\ appended = {}
    /\ removed = {}

\* NornHook.__init__, interceptor.py lines 95-160, and StepAnalyzer.__init__
HookNew ==
    /\ hpc = "new"
    /\ _step_counter = 0
    /\ _steps = <<>>
    /\ _issues = <<>>
    /\ _loop_detected = FALSE
    /\ analyzer = [recent |-> <<>>, tool_counter |-> <<>>, input_hashes |-> {}]
    /\ inFlight = <<>>
    /\ _steps_to_evaluate = <<>>
    /\ _session_report = [started |-> FALSE]
    /\ judged = [did |-> "nothing"]

HookIdle ==
    /\ config = [mode |-> "monitor", enable_ai_eval |-> FALSE]
    /\ task = FALSE
    /\ HookNew

ResumeIdle ==
    /\ _existing_step_count = 0
    /\ resumedFrom = [received |-> FALSE, numbers |-> <<>>]
    /\ nRuns = 0

AuthIdle ==
    /\ API_KEY = ""
    /\ active_connections = {}
    /\ request = [endpoint |-> "none", key |-> "none", code |-> 0, connections |-> {}]

GuardIdle ==
    /\ params = [max_steps |-> max_steps, loop_window |-> loop_window,
                 loop_threshold |-> loop_threshold, max_same_tool |-> max_same_tool]
    /\ trace = <<>>

MaskIdle ==
    /\ rawInput = [t |-> "none"] /\ stepInput = [t |-> "none"] /\ sentInput = [t |-> "none"]
    /\ streaming = FALSE

NormIdle ==
    /\ normClock = 0
    /\ normInput = NoFile /\ normOnce = NoFile /\ normTwice = NoFile

EvalIdle ==
    /\ env = [on_issue |-> "none", store |-> "ok", dashboard |-> "none", evaluator |-> "ok"]
    /\ worker = "none" /\ escaped = "none" /\ heuristic = NoFile
    /\ timedOut = FALSE /\ fullResults = <<>> /\ judgeCalls = <<>>

RunIdle ==
    /\ runner = "idle"
    /\ runSession = NoFile
    /\ agentThread = "none"
    /\ hookReport = NoFile

RegIdle ==
    /\ registryFile = <<>>
    /\ _registry_lock = 0
    /\ registerClock = 0
    /\ registering = [t \in {1, 2} |-> [pc |-> "idle", name |-> "", agents |-> <<>>]]
    /\ registrations = <<>>
    /\ nRegisters = 0

OrderIdle ==
    /\ opc = "new"
    /\ produced = <<>>
    /\ broadcasts = <<>>

BroadcastIdle ==
    /\ bpc = "idle" /\ si_used = 0 /\ pending = {} /\ sending = 0
    /\ disconnected = {} /\ sendOk = {} /\ leftMeanwhile = {} /\ nConnects = 0

ReadIdle ==
    /\ gpc = "idle"
    /\ answer = [code |-> 0, missing |-> FALSE]
    /\ nReads = 0

ExecIdle ==
    /\ agentStatus = "analyzed"
    /\ executions = [e \in {1, 2} |->
           [pc |-> "idle", status |-> "none", issues |-> <<>>, _original_cwd |-> "none",
            _added_sys_paths |-> <<>>, then |-> "none"]]
    /\ cwd = "home"
    /\ _chdir_lock = 0
    /\ sys_path = <<"site-packages">>

AccessIdle ==
    /\ accessing = [t \in {1, 2} |-> [pc |-> "idle", op |-> "none", id |-> "none", agents |-> <<>>]]
    /\ expectedRegistry = <<>>
    /\ nAccesses = 0

InitStore == StoreInit /\ AtomicIdle /\ RaceIdle /\ MaskIdle /\ HookIdle /\ GuardIdle /\ ResumeIdle /\ AuthIdle /\ NormIdle /\ EvalIdle /\ RunIdle /\ RegIdle /\ OrderIdle /\ BroadcastIdle /\ ReadIdle /\ ExecIdle /\ AccessIdle

SpecStore == InitStore /\ [][StoreNext]_vars

----------------------------------------------------------------------------
(* Claims about the merge of write_session, checked under SpecStore.       *)

\* the value a key of a dict holds counts as absent when it is None, an empty
\* string or an empty list
NullOrEmpty(d, k) == k \notin DOMAIN d \/ d[k] \in {JNull, JStr(""), JList(<<>>)}

AfterPut == lastOp.op = "put" /\ prevFile /= NoFile

\* C2: after put_session of a report P over a persisted session S, every
\* top-level field that is non-null in S and null or empty in P still holds
\* its S value in the persisted result.
C2_StoredFieldNeverNulled ==
    AfterPut =>
        \A f \in DOMAIN prevFile :
            (prevFile[f] /= JNull /\ NullOrEmpty(lastOp.arg, f))
                => (f \in DOMAIN file /\ file[f] = prevFile[f])

\* the step of a step list with a given step_id (EmptyDict when there is none)
StepWithId(steps, sid) ==
    IF \E i \in 1..Len(steps) : Get(steps[i], "step_id") = sid
    THEN steps[CHOOSE i \in 1..Len(steps) : Get(steps[i], "step_id") = sid]
    ELSE EmptyDict

----------------------------------------------------------------------------
(* SpecAtomic: put_session at the level of its I/O operations              *)
(* (audit_logger.py lines 79-131; _atomic_write_json of shared.py has the  *)
(* same lines 46-56), with a crash of the process between any two of them  *)
(* and a concurrent reader (get_session).                                  *)

\* a path with no file, and a file holding the given bytes
Absent == [exists |-> FALSE, bytes |-> <<>>]
FileOf(bytes) == [exists |-> TRUE, bytes |-> bytes]

\* json.dump(new_data, f, indent=2) writes the document in pieces
Bytes(data) == <<[part |-> "open", data |-> EmptyDict], [part |-> "body", data |-> data], [part |-> "close", data |-> EmptyDict]>>

\* json.load of the file (lines 84-86; any failure gives {})
Parsed(f) == IF f.exists /\ Len(f.bytes) = 3 THEN f.bytes[2].data ELSE EmptyDict

WellFormed(f) == ~f.exists \/ (Len(f.bytes) = 3 /\ f.bytes = Bytes(f.bytes[2].data))

\* lines 79-118: take the lock, read the existing file, merge the report
AtomicRead ==
    /\ wpc = "idle"
    /\ nPuts < MaxPuts
    /\ \E kind \in ReportKinds : \E steps \in ReportStepLists(1) :
        wdata' = MergedSession(Parsed(disk), Report(kind, steps))
    /\ before' = disk
    /\ wpc' = "read"
    /\ nPuts' = nPuts + 1
    /\ UNCHANGED <<disk, tmpFile, readerSaw>>
    /\ UNCHANGED exceptAtomic

\* line 121: tempfile.mkstemp(dir=path.parent, suffix=".tmp") creates an
\* empty file beside the session file
AtomicMkstemp ==
    /\ wpc = "read"
    /\ tmpFile' = FileOf(<<>>)
    /\ wpc' = "created"
    /\ UNCHANGED <<disk, wdata, before, readerSaw, nPuts>>
    /\ UNCHANGED exceptAtomic

\* the same write with the session file itself opened for writing
MutAtomicWrite ==
    /\ wpc = "created"
    /\ tmpFile' = FileOf(Append(tmpFile.bytes, Bytes(wdata)[Len(tmpFile.bytes) + 1]))
    /\ disk' = tmpFile'
    /\ wpc' = IF Len(tmpFile'.bytes) = Len(Bytes(wdata)) THEN "written" ELSE "created"
    /\ UNCHANGED <<wdata, before, readerSaw, nPuts>>
    /\ UNCHANGED exceptAtomic

\* lines 123-124: the next piece of the document reaches the temp file; the
\* file is closed after the last one
AtomicWrite ==
    /\ wpc = "created"
    /\ tmpFile' = FileOf(Append(tmpFile.bytes, Bytes(wdata)[Len(tmpFile.bytes) + 1]))
    /\ wpc' = IF Len(tmpFile'.bytes) = Len(Bytes(wdata)) THEN "written" ELSE "created"
    /\ UNCHANGED <<disk, wdata, before, readerSaw, nPuts>>
    /\ UNCHANGED exceptAtomic

\* line 125: os.replace(tmp_path, path), atomic; the call returns
AtomicReplace ==
    /\ wpc = "written"
    /\ disk' = tmpFile
    /\ tmpFile' = Absent
    /\ wpc' = "idle"
    /\ UNCHANGED <<wdata, before, readerSaw, nPuts>>
    /\ UNCHANGED exceptAtomic

\* lines 126-131: the write or the rename raises; the temp file is unlinked
\* and the exception propagates
AtomicWriteFails ==
    /\ wpc \in {"created", "written"}
    /\ tmpFile' = Absent
    /\ wpc' = "idle"
    /\ UNCHANGED <<disk, wdata, before, readerSaw, nPuts>>
    /\ UNCHANGED exceptAtomic

\* the process is killed between two I/O operations of the call: nothing
\* more of the call runs, the temp file stays where it is
AtomicCrash ==
    /\ wpc \in {"read", "created", "written"}
    /\ wpc' = "crashed"
    /\ UNCHANGED <<disk, tmpFile, wdata, before, readerSaw, nPuts>>
    /\ UNCHANGED exceptAtomic

\* a new process serves the next call; mkstemp gives it a new temp name
AtomicRestart ==
    /\ wpc = "crashed"
    /\ wpc' = "idle"
    /\ tmpFile' = Absent
    /\ UNCHANGED <<disk, wdata, before, readerSaw, nPuts>>
    /\ UNCHANGED exceptAtomic

\* get_session, sessions.py lines 174-182: a reader opens the session file
\* (*.json; the temp file's suffix is .tmp) and reads it to the end
AtomicReaderReads ==
    /\ readerSaw' = [read |-> "done", content |-> disk]
    /\ UNCHANGED <<disk, tmpFile, wpc, wdata, before, nPuts>>
    /\ UNCHANGED exceptAtomic

AtomicNext ==
    \/ AtomicRead
    \/ AtomicMkstemp
    \/ AtomicWrite
    \/ AtomicReplace
    \/ AtomicWriteFails
    \/ AtomicCrash
    \/ AtomicRestart
    \/ AtomicReaderReads

InitAtomic == StoreInit /\ AtomicIdle /\ RaceIdle /\ MaskIdle /\ HookIdle /\ GuardIdle /\ ResumeIdle /\ AuthIdle /\ NormIdle /\ EvalIdle /\ RunIdle /\ RegIdle /\ OrderIdle /\ BroadcastIdle /\ ReadIdle /\ ExecIdle /\ AccessIdle

SpecAtomic == InitAtomic /\ [][AtomicNext]_vars

\* C4: a crash between two I/O operations of put_session leaves the session
\* file byte-identical to its content before the call (it keeps that content
\* until the rename), and the file and every read of it hold a whole document,
\* never an empty or half-written one.
C4_CrashSafeAndNeverPartial ==
    /\ wpc \in {"read", "created", "written", "crashed"} => disk = before
    /\ WellFormed(disk)
    /\ readerSaw.read = "done" => WellFormed(readerSaw.content)

\* a crash after the temp file was partly written, over an existing session
\* file, followed by a read
C4_Witness ==
    /\ wpc = "crashed"
    /\ before.exists
    /\ tmpFile.exists /\ Len(tmpFile.bytes) \in {1, 2}
    /\ FileOf(Bytes(wdata)) /= before
    /\ readerSaw.read = "done" /\ readerSaw.content = before

----------------------------------------------------------------------------
(* SpecRace: two writers of one session file.  Every writer reads the file, *)
(* changes the copy it read and installs it with _atomic_write_json (or the *)
(* temp file + os.replace of write_session); the model splits each         *)
(* operation at the point between its read and its write.                  *)

Writers == {1, 2}

\* add_session_step and complete_session are "async def" with no await between
\* their read and their write: the event loop runs one of them at a time.
\* ingest_session and delete_step are plain "def": FastAPI runs them in worker
\* threads.  write_session runs in the thread (or process) of the agent.
OnEventLoop(op) == op \in {"step", "complete"}

EventLoopFree(w) ==
    \A o \in Writers \ {w} : ~(writers[o].pc = "read" /\ OnEventLoop(writers[o].op))

\* LocalFileStore._write_lock (audit_logger.py lines 58, 79): one lock per
\* store object, taken by write_session only
WriteLockFree(w) ==
    \A o \in Writers \ {w} : ~(writers[o].pc = "read" /\ writers[o].op = "put")

RaceReads(w, op, arg) ==
    /\ writers[w].pc = "idle"
    /\ nOps < MaxRaceOps
    /\ writers' = [writers EXCEPT ![w] = [pc |-> "read", op |-> op, snap |-> file, arg |-> arg]]
    /\ nOps' = nOps + 1
    /\ UNCHANGED <<file, appended, removed>>
    /\ UNCHANGED exceptRace

\* ingest_session lines 189-199: session_file.exists(), json.load
RaceIngestReads ==
    \E w \in Writers : \E data \in IngestBodies :
        /\ RaceReads(w, "ingest", data)
        /\ UNCHANGED nextId

\* add_session_step lines 257-263
RaceStepReads ==
    \E w \in Writers : \E input \in StreamedInputs :
        /\ file /= NoFile
        /\ nextId <= MaxStepIds
        /\ EventLoopFree(w)
        /\ RaceReads(w, "step", StreamedStep(nextId, input))
        /\ nextId' = nextId + 1

\* complete_session lines 288-294
RaceCompleteReads ==
    \E w \in Writers : \E data \in CompleteBodies :
        /\ file /= NoFile
        /\ EventLoopFree(w)
        /\ RaceReads(w, "complete", data)
        /\ UNCHANGED nextId

\* delete_step lines 336-345 (a step_id the file does not hold is a 404 and
\* writes nothing)
RaceDeleteStepReads ==
    \E w \in Writers :
        /\ file /= NoFile
        /\ \E i \in 1..Len(ListOrSteps(file)) :
            RaceReads(w, "delete_step", Get(ListOrSteps(file)[i], "step_id"))
        /\ UNCHANGED nextId

\* write_session lines 79-88: the lock, then the read of the existing file
RacePutReads ==
    \E w \in Writers : \E kind \in ReportKinds :
        /\ WriteLockFree(w)
        /\ RaceReads(w, "put", Report(kind, <<>>))
        /\ UNCHANGED nextId

\* what each operation writes, from the copy it read
Written(op, snap, arg) ==
    CASE op = "ingest"      -> IngestSession(snap, arg)
      [] op = "step"        -> AddSessionStep(snap, arg)
      [] op = "complete"    -> CompleteSession(snap, arg)
      [] op = "delete_step" -> DeleteStep(snap, arg)
      [] OTHER              -> MergedSession(IF snap = NoFile THEN EmptyDict ELSE snap, arg)

\* the _atomic_write_json (os.replace) that ends each operation
RaceWrites ==
    \E w \in Writers :
        LET me == writers[w]
        IN  /\ me.pc = "read"
            /\ file' = Written(me.op, me.snap, me.arg)
            /\ writers' = [writers EXCEPT ![w].pc = "idle"]
            /\ appended' = IF me.op = "step" THEN appended \cup {Get(me.arg, "step_id")} ELSE appended
            /\ removed' = IF me.op = "delete_step" THEN removed \cup {me.arg} ELSE removed
            /\ UNCHANGED <<nOps, nextId>>
            /\ UNCHANGED exceptRace

RaceNext ==
    \/ RaceIngestReads
    \/ RaceStepReads
    \/ RaceCompleteReads
    \/ RaceDeleteStepReads
    \/ RacePutReads
    \/ RaceWrites

InitRace == StoreInit /\ AtomicIdle /\ RaceIdle /\ MaskIdle /\ HookIdle /\ GuardIdle /\ ResumeIdle /\ AuthIdle /\ NormIdle /\ EvalIdle /\ RunIdle /\ RegIdle /\ OrderIdle /\ BroadcastIdle /\ ReadIdle /\ ExecIdle /\ AccessIdle

SpecRace == InitRace /\ [][RaceNext]_vars

HasStep(session, step_id) ==
    \E i \in 1..Len(ListOrSteps(session)) : Get(ListOrSteps(session)[i], "step_id") = step_id

\* C5: two writers of one session file take effect one after the other; once
\* both have returned, every step a step request appended (and no delete-step
\* request removed) is in the file.
C5_NoAppendedStepLost ==
    (\A w \in Writers : writers[w].pc = "idle") =>
        \A step_id \in appended \ removed : file /= NoFile /\ HasStep(file, step_id)

----------------------------------------------------------------------------
(* SpecMask: the tool_input of a step, from the AfterToolCallEvent to the  *)
(* StepRecord and to the payload streamed to the dashboard.                *)

\* _SENSITIVE_KEYS, interceptor.py lines 50-56
SENSITIVE_KEYS ==
    {"password", "passwd", "secret", "api_key", "apikey", "token", "access_token",
     "refresh_token", "id_token", "private_key", "access_key", "auth_key",
     "authorization", "credential", "credentials", "client_secret"}

\* the key names of the model's inputs; each is a whole marker or holds none
MaskKeys == {"q", "items", "password", "API_KEY"}

\* k.lower()
Lower(k) == IF k = "API_KEY" THEN "api_key" ELSE k

\* line 69: any(s in k.lower() for s in _SENSITIVE_KEYS)
IsSensitiveKey(k) == \E s \in SENSITIVE_KEYS : Lower(k) = s

REDACTED == JStr("***REDACTED***")

\* lines 59-75; data is a dict
RECURSIVE _mask_sensitive(_)
_mask_sensitive(data) ==
    IF DOMAIN data = {} THEN data
    ELSE [k \in DOMAIN data |->
            IF IsSensitiveKey(k) THEN REDACTED
            ELSE IF data[k].t = "map" THEN JMap(_mask_sensitive(data[k].v))
            ELSE data[k]]

\* dicts of one key (and the empty one) over the given values
DictsOver(values) == {EmptyDict} \cup UNION {{[x \in {k} |-> v] : v \in values} : k \in MaskKeys}

\* the JSON values nested up to the given depth
RECURSIVE ValuesOfDepth(_)
ValuesOfDepth(depth) ==
    IF depth = 0 THEN {JStr("hunter2")}
    ELSE LET inner == ValuesOfDepth(depth - 1)
         IN  inner \cup {JMap(m) : m \in DictsOver(inner)}
                   \cup {JList(<<>>)} \cup {JList(<<v>>) : v \in inner}

ToolInputs == DictsOver(ValuesOfDepth(MaxDepth))

\* str(step.tool_input), line 898: the repr of the masked dict
StrOf(v) == [t |-> "repr", of |-> v]

\* _on_after_tool lines 570-610: the StepRecord and the streamed payload
MaskAfterTool ==
    /\ \E tool_input \in ToolInputs :
        /\ rawInput' = JMap(tool_input)
        /\ stepInput' = JMap(_mask_sensitive(tool_input))
        /\ sentInput' = IF streaming THEN StrOf(stepInput') ELSE [t |-> "none"]
    /\ UNCHANGED streaming
    /\ UNCHANGED exceptMask

\* _on_session_start lines 246-247, _dashboard_on_session_start: the agent
\* registers with the dashboard
MaskRegisters ==
    /\ ~streaming
    /\ rawInput.t = "none"
    /\ streaming' = TRUE
    /\ UNCHANGED <<rawInput, stepInput, sentInput>>
    /\ UNCHANGED exceptMask

MaskNext ==
    \/ MaskAfterTool
    \/ MaskRegisters

InitMask == StoreInit /\ AtomicIdle /\ RaceIdle /\ MaskIdle /\ HookIdle /\ GuardIdle /\ ResumeIdle /\ AuthIdle /\ NormIdle /\ EvalIdle /\ RunIdle /\ RegIdle /\ OrderIdle /\ BroadcastIdle /\ ReadIdle /\ ExecIdle /\ AccessIdle

SpecMask == InitMask /\ [][MaskNext]_vars

\* a value under a sensitive key that is not the redaction marker, at any depth
RECURSIVE Leaks(_)
Leaks(v) ==
    CASE v.t = "map"  -> \E k \in DOMAIN v.v :
                            \/ IsSensitiveKey(k) /\ v.v[k] /= REDACTED
                            \/ Leaks(v.v[k])
      [] v.t = "list" -> \E i \in 1..Len(v.v) : Leaks(v.v[i])
      [] v.t = "repr" -> Leaks(v.of)
      [] OTHER        -> FALSE

\* C6: the tool_input of every step the pipeline records or streams holds the
\* redaction marker under every sensitive key, at every depth, inside nested
\* maps and inside lists of maps.
C6_NoSensitiveValueKept == ~Leaks(stepInput) /\ ~Leaks(sentInput)

----------------------------------------------------------------------------
(* Spec: one NornHook from its construction to the end of the session: the *)
(* five lifecycle callbacks, the StepAnalyzer, the per-step and session    *)
(* evaluation of the eval thread, _finalize_report and the session file    *)
(* that write_session keeps.  The hook has a session_id and no norn_url,   *)
(* as the one runner.py builds (lines 153-164).                            *)

QualityIssue(issue_type, severity) == [issue_type |-> issue_type, severity |-> severity]

\* tool_input.get(key) is value, for one of the keys
AnyKeyIs(tool_input, keys, value) == \E k \in keys \cap DOMAIN tool_input : tool_input[k] = value

\* step_analyzer.py lines 96-111: a shell metacharacter in a command field
\* (of the model's inputs, the string "ls; id" holds one)
HasMetachar(tool_input) ==
    \E k \in {"cmd", "command", "args", "shell_cmd", "exec", "query", "input"} \cap DOMAIN tool_input :
        tool_input[k] = JStr("ls; id")

\* lines 114-126: a string under a key that holds a credential marker
HasCredentialKey(tool_input) ==
    \E k \in DOMAIN tool_input :
        /\ tool_input[k].t = "str"
        /\ Lower(k) \in {"password", "passwd", "secret", "api_key", "token",
                         "private_key", "access_key", "auth_key"}

If(cond, issue) == IF cond THEN <<issue>> ELSE <<>>

CountOf(counter, name) == IF name \in DOMAIN counter THEN counter[name] ELSE 0

\* lines 159-160 with > for >= in the comparison with 3
MutEvasionLoop(recent, tool_name) ==
    Cardinality({i \in 1..Len(recent) : recent[i][1] = tool_name}) > 3

\* lines 159-160: the tool's name is in _recent_steps three times or more
\* before the call is appended to it
EvasionLoop(recent, tool_name) ==
    Cardinality({i \in 1..Len(recent) : recent[i][1] = tool_name}) >= 3

\* Counter(_recent_steps).most_common(1)[0][1], line 178
MostCommon(recent) ==
    CHOOSE n \in 1..Len(recent) :
        /\ \E i \in 1..Len(recent) : Cardinality({j \in 1..Len(recent) : recent[j] = recent[i]}) = n
        /\ \A i \in 1..Len(recent) : Cardinality({j \in 1..Len(recent) : recent[j] = recent[i]}) <= n

\* lines 176-179 with > for >= in the comparison with loop_threshold
MutRepeatingPattern(recent, window, threshold) ==
    Len(recent) >= window /\ MostCommon(recent) > threshold

\* lines 176-179: _recent_steps, the call appended, is full and its most
\* common signature is in it loop_threshold times or more
RepeatingPattern(recent, window, threshold) ==
    Len(recent) >= window /\ MostCommon(recent) >= threshold

\* StepAnalyzer.analyze_step, lines 43-188, with the analyzer's parameters:
\* the issues in the order the code appends them, and the analyzer's new state
AnalyzeStep(st, tool_name, tool_input, window, threshold, max_same) ==
    LET signature == <<tool_name, tool_input>>
        count == CountOf(st.tool_counter, tool_name) + 1
        pushed == Append(st.recent, signature)
        recent == IF Len(pushed) > window THEN Tail(pushed) ELSE pushed
    IN  [status |-> IF signature \in st.input_hashes THEN "REDUNDANT" ELSE "SUCCESS",
         issues |->
            If(AnyKeyIs(tool_input, {"verify_ssl", "verify", "ssl_verify", "check_ssl", "ssl_check"},
                        JBool(FALSE)), QualityIssue("SECURITY_BYPASS", 8))
            \o If(AnyKeyIs(tool_input, {"shell", "use_shell", "shell_mode"}, JBool(TRUE)),
                  QualityIssue("SECURITY_BYPASS", 9))
            \o If(HasMetachar(tool_input), QualityIssue("SECURITY_BYPASS", 8))
            \o If(HasCredentialKey(tool_input), QualityIssue("SECURITY_BYPASS", 7))
            \o If(signature \in st.input_hashes, QualityIssue("INEFFICIENCY", 3))
            \o If(count >= max_same, QualityIssue("INFINITE_LOOP", 8))
            \o If(EvasionLoop(st.recent, tool_name), QualityIssue("SUSPICIOUS_BEHAVIOR", 7))
            \o If(RepeatingPattern(recent, window, threshold), QualityIssue("INFINITE_LOOP", 9)),
         state |->
            [recent |-> recent,
             tool_counter |-> Put(st.tool_counter, tool_name, count),
             input_hashes |-> st.input_hashes \cup {signature}]]

\* _on_before_tool lines 543-562: the loop over the analyzer's issues, which
\* stops at the first SECURITY_BYPASS of severity 7 or more in INTERVENE mode
RECURSIVE RecordIssues(_, _, _)
RecordIssues(acc, new_issues, mode) ==
    IF new_issues = <<>> THEN acc
    ELSE LET issue == Head(new_issues)
             bypass == issue.issue_type = "SECURITY_BYPASS" /\ issue.severity >= 7
             acc1 == [issues |-> Append(acc.issues, issue),
                      loop_detected |-> acc.loop_detected
                                        \/ (issue.issue_type = "INFINITE_LOOP" /\ issue.severity >= 8),
                      breach |-> acc.breach \/ bypass,
                      cancel_tool |-> bypass /\ mode = "intervene"]
         IN  IF acc1.cancel_tool THEN acc1 ELSE RecordIssues(acc1, Tail(new_issues), mode)

HARD_SECURITY_TYPES == {"SECURITY_BYPASS", "PROMPT_INJECTION", "DATA_EXFILTRATION"}

HasIssue(all_issues, types, min_severity) ==
    \E i \in 1..Len(all_issues) :
        all_issues[i].issue_type \in types /\ all_issues[i].severity >= min_severity

\* lines 779-782 without the loop branch
MutFinalQuality(quality, all_issues, loop) ==
    IF HasIssue(all_issues, HARD_SECURITY_TYPES, 8) THEN "FAILED" ELSE quality

\* lines 779-782 without the security branch
MutFinalQualityNoSecurity(quality, all_issues, loop) ==
    IF loop \/ HasIssue(all_issues, {"INFINITE_LOOP"}, 8) THEN "STUCK" ELSE quality

\* lines 779-782 with the two branches in the other order
MutFinalQualitySecurityFirst(quality, all_issues, loop) ==
    IF HasIssue(all_issues, HARD_SECURITY_TYPES, 8) THEN "FAILED"
    ELSE IF loop \/ HasIssue(all_issues, {"INFINITE_LOOP"}, 8) THEN "STUCK"
    ELSE quality

\* _finalize_report lines 770-782: the quality override
FinalQuality(quality, all_issues, loop) ==
    IF loop \/ HasIssue(all_issues, {"INFINITE_LOOP"}, 8) THEN "STUCK"
    ELSE IF HasIssue(all_issues, HARD_SECURITY_TYPES, 8) THEN "FAILED"
    ELSE quality

\* lines 786-794 with the one cap 40
MutFinalSecurityScore(score, all_issues) ==
    IF HasIssue(all_issues, HARD_SECURITY_TYPES, 8) /\ (score = JNull \/ score.v > 40)
    THEN JInt(40) ELSE score

\* lines 786-794: the cap of security_score
FinalSecurityScore(score, all_issues) ==
    IF HasIssue(all_issues, HARD_SECURITY_TYPES, 8)
    THEN LET cap == IF HasIssue(all_issues, {"PROMPT_INJECTION", "DATA_EXFILTRATION"}, 8)
                    THEN 20 ELSE 40
         IN  IF score = JNull \/ score.v > cap THEN JInt(cap) ELSE score
    ELSE score

\* the report after lines 770-794 of _finalize_report
Finalized(rep, all_issues, loop) ==
    [rep EXCEPT !.overall_quality = FinalQuality(rep.overall_quality, all_issues, loop),
                !.security_score = FinalSecurityScore(rep.security_score, all_issues)]

\* json.loads(report.model_dump_json()), audit_logger.py line 89
ReportJson(rep, all_steps, all_issues) ==
    [task                     |-> IF rep.task THEN JMap([description |-> JStr("t")]) ELSE JNull,
     ended_at                 |-> JStr("t1"),
     total_steps              |-> JInt(rep.total_steps),
     steps                    |-> JList(all_steps),
     issues                   |-> JList([i \in 1..Len(all_issues) |->
                                    [issue_type |-> JStr(all_issues[i].issue_type),
                                     severity   |-> JInt(all_issues[i].severity)]]),
     overall_quality          |-> JStr(rep.overall_quality),
     security_score           |-> rep.security_score,
     loop_detected            |-> JBool(rep.loop_detected),
     security_breach_detected |-> JBool(rep.security_breach_detected)]

\* line 802: audit.record_session -> write_session of the finalized report
Recorded(f, rep, all_steps, all_issues) ==
    MergedSession(IF f = NoFile THEN EmptyDict ELSE f, ReportJson(rep, all_steps, all_issues))

\* the tool calls the agent makes: name and input
ToolCalls ==
    {[name |-> "search", input |-> [q |-> JInt(1)]],
     [name |-> "search", input |-> [q |-> JInt(2)]],
     [name |-> "run",    input |-> [shell |-> JBool(TRUE)]]}

\* how a tool call ends: a result, a result dict with status "error", an
\* exception (a result text with one of the _CONFIG_ERROR_PATTERNS, such as
\* "api key not found", is not among the model's outcomes)
ToolOutcomes == {"ok", "error", "exception"}

\* the agent's system prompt: the groups of _check_system_prompt it matches
SystemPrompts == {0, 2}

\* evaluate_step_relevance (quality_evaluator.py lines 147-156): the scores
\* and the keyword of the reasoning
StepJudgements ==
    {[relevance |-> JInt(90), security |-> JInt(100), keyword |-> "none"],
     [relevance |-> JInt(20), security |-> JInt(40),  keyword |-> "exfiltration"]}

SessionQuality == {"EXCELLENT", "GOOD", "POOR", "FAILED", "STUCK", "PENDING"}

\* evaluate_session (lines 245-261): any quality of the enum, a score in 0..100
SessionJudgements ==
    {[did |-> "returned", overall_quality |-> q, security_score |-> JInt(100)] : q \in SessionQuality}
    \cup {[did |-> "returned", overall_quality |-> "GOOD", security_score |-> JInt(30)],
          [did |-> "failed", overall_quality |-> "POOR", security_score |-> JNull]}

HookInit ==
    /\ config \in [mode : {"monitor", "intervene"}, enable_ai_eval : BOOLEAN]
    /\ task \in BOOLEAN
    /\ HookNew

\* _on_session_start, interceptor.py lines 180-253, with _check_system_prompt
OnSessionStart ==
    /\ hpc = "new"
    /\ \E groups \in SystemPrompts :
        /\ _issues' = If(groups > 0,
                         IF groups >= 2 THEN QualityIssue("PROMPT_INJECTION", 9)
                         ELSE QualityIssue("SUSPICIOUS_BEHAVIOR", 7))
        /\ _session_report' =
            [task |-> task, overall_quality |-> "PENDING", security_score |-> JNull,
             total_steps |-> 0, loop_detected |-> FALSE,
             security_breach_detected |-> groups > 0]
    /\ _step_counter' = 0
    /\ _steps' = <<>>
    /\ _loop_detected' = FALSE
    /\ _steps_to_evaluate' = <<>>
    /\ analyzer' = [recent |-> <<>>, tool_counter |-> <<>>, input_hashes |-> {}]
    /\ hpc' = "running"
    /\ UNCHANGED <<config, task, inFlight, judged, file, nextId>>
    /\ UNCHANGED exceptHook

\* _on_message_added, lines 345-405: the first user message sets the task; an
\* assistant message without toolUse before any tool call is a synthetic step
OnMessageAdded ==
    /\ hpc = "running"
    /\ \E role \in {"user", "assistant"} :
        IF role = "user"
        THEN /\ task' = TRUE
             /\ _session_report' = [_session_report EXCEPT !.task = TRUE]
             /\ UNCHANGED <<_step_counter, _steps, nextId>>
        ELSE /\ _step_counter = 0
             /\ _step_counter' = 1
             /\ _steps' = Append(_steps,
                    [step_id         |-> StepId(nextId),
                     step_number     |-> JInt(1),
                     tool_name       |-> JStr("ai_reasoning"),
                     tool_input      |-> JMap([task |-> JStr(IF task THEN "t" ELSE "")]),
                     status          |-> JStr("SUCCESS"),
                     relevance_score |-> JInt(100),
                     security_score  |-> JInt(100),
                     reasoning       |-> JStr("")])
             /\ nextId' = nextId + 1
             /\ UNCHANGED <<task, _session_report>>
    /\ UNCHANGED <<config, hpc, _issues, _loop_detected, analyzer, inFlight,
                   _steps_to_evaluate, judged, file>>
    /\ UNCHANGED exceptHook

\* _on_before_tool, lines 529-568
OnBeforeTool ==
    /\ hpc = "running"
    /\ _step_counter < MaxCalls
    /\ Len(inFlight) < MaxInFlight
    /\ \E call \in ToolCalls :
        LET analysis == AnalyzeStep(analyzer, call.name, call.input,
                                    loop_window, loop_threshold, max_same_tool)
            recorded == RecordIssues([issues |-> _issues, loop_detected |-> _loop_detected,
                                      breach |-> _session_report.security_breach_detected,
                                      cancel_tool |-> FALSE],
                                     analysis.issues, config.mode)
            cancel_tool == \/ recorded.cancel_tool
                           \/ (_step_counter + 1 > max_steps /\ config.mode = "intervene")
        IN  /\ analyzer' = analysis.state
            /\ _issues' = recorded.issues
            /\ _loop_detected' = recorded.loop_detected
            /\ _session_report' =
                [_session_report EXCEPT !.security_breach_detected = recorded.breach]
            /\ inFlight' = Append(inFlight, [name |-> call.name, input |-> call.input,
                                             cancel_tool |-> cancel_tool])
    /\ _step_counter' = _step_counter + 1
    /\ UNCHANGED <<config, task, hpc, _steps, _steps_to_evaluate, judged, file, nextId>>
    /\ UNCHANGED exceptHook

\* _on_after_tool, lines 570-617; a cancelled call comes back from the
\* framework as an error result
OnAfterTool ==
    /\ hpc = "running"
    /\ \E i \in 1..Len(inFlight) : \E outcome \in ToolOutcomes :
        LET call == inFlight[i]
            status == IF outcome = "exception" THEN "FAILED"
                      ELSE IF HasIssue(_issues, {"INFINITE_LOOP"}, 1) THEN "REDUNDANT"
                      ELSE IF outcome = "error" THEN "FAILED"
                      ELSE "SUCCESS"
        IN  /\ call.cancel_tool => outcome = "error"
            /\ _steps' = Append(_steps,
                    [step_id         |-> StepId(nextId),
                     step_number     |-> JInt(_step_counter),
                     tool_name       |-> JStr(call.name),
                     tool_input      |-> JMap(_mask_sensitive(call.input)),
                     status          |-> JStr(status),
                     relevance_score |-> JNull,
                     security_score  |-> JNull,
                     reasoning       |-> JStr("")])
            /\ _steps_to_evaluate' =
                IF config.enable_ai_eval /\ task
                THEN Append(_steps_to_evaluate,
                            [step |-> Len(_steps) + 1,
                             config_error |-> outcome = "api key not found"])
                ELSE _steps_to_evaluate
            /\ inFlight' = [j \in 1..(Len(inFlight) - 1) |->
                                IF j < i THEN inFlight[j] ELSE inFlight[j + 1]]
    /\ nextId' = nextId + 1
    /\ UNCHANGED <<config, task, hpc, _step_counter, _issues, _loop_detected, analyzer,
                   _session_report, judged, file>>
    /\ UNCHANGED exceptHook

\* _on_session_end, lines 407-477, up to the start of the eval thread: the
\* counts, check_efficiency, the first _finalize_report
OnSessionEnd ==
    /\ hpc = "running"
    /\ inFlight = <<>>
    /\ LET all_issues == _issues \o If(task /\ 2 * Len(_steps) > 3 * max_steps,
                                       QualityIssue("INEFFICIENCY", 5))
           rep == Finalized([_session_report EXCEPT !.total_steps = Len(_steps),
                                                    !.loop_detected = _loop_detected],
                            all_issues, _loop_detected)
       IN  /\ _issues' = all_issues
           /\ _session_report' = rep
           /\ file' = Recorded(file, rep, _steps, all_issues)
    /\ hpc' = IF config.enable_ai_eval /\ task THEN "evaluating" ELSE "done"
    /\ UNCHANGED <<config, task, _step_counter, _steps, _loop_detected, analyzer, inFlight,
                   _steps_to_evaluate, judged, nextId>>
    /\ UNCHANGED exceptHook

\* _await_pending_and_evaluate lines 486-499 with _evaluate_step_relevance,
\* lines 621-712: the eval thread evaluates the next queued step
EvaluateStepRelevance ==
    /\ hpc = "evaluating"
    /\ _steps_to_evaluate /= <<>>
    /\ \E j \in StepJudgements :
        LET item == Head(_steps_to_evaluate)
            step == _steps[item.step]
            drift == j.relevance /= JNull /\ j.relevance.v < 30
            insecure == j.security /= JNull /\ j.security.v <= 50
            issue_type == CASE j.keyword = "exfiltration" -> "DATA_EXFILTRATION"
                            [] j.keyword = "injection"    -> "PROMPT_INJECTION"
                            [] j.keyword = "credential"   -> "CREDENTIAL_LEAK"
                            [] j.keyword = "ssl"          -> "SECURITY_BYPASS"
                            [] OTHER                      -> "SUSPICIOUS_BEHAVIOR"
            status == IF item.config_error THEN JStr("FAILED")
                      ELSE IF drift THEN JStr("IRRELEVANT") ELSE step.status
        IN  /\ _steps' = [_steps EXCEPT ![item.step] =
                    [step EXCEPT !.relevance_score = j.relevance,
                                 !.security_score = j.security,
                                 !.reasoning = JStr(j.keyword),
                                 !.status = status]]
            /\ _issues' = _issues
                    \o If(drift, QualityIssue("TASK_DRIFT", 6))
                    \o If(insecure, QualityIssue(issue_type, IF j.security.v < 20 THEN 10 ELSE 8))
                    \o If(item.config_error, QualityIssue("MISSING_CONFIG", 7))
            /\ _session_report' = [_session_report EXCEPT !.security_breach_detected = @ \/ insecure]
    /\ _steps_to_evaluate' = Tail(_steps_to_evaluate)
    /\ UNCHANGED <<config, task, hpc, _step_counter, _loop_detected, analyzer, inFlight,
                   judged, file, nextId>>
    /\ UNCHANGED exceptHook

\* _run_ai_evaluation, lines 714-756, with the _finalize_report of its finally
RunAiEvaluation ==
    /\ hpc = "evaluating"
    /\ _steps_to_evaluate = <<>>
    /\ \E j \in SessionJudgements :
        LET rep == Finalized(
                    [_session_report EXCEPT
                        !.overall_quality = j.overall_quality,
                        !.security_score = IF j.security_score /= JNull THEN j.security_score ELSE @],
                    _issues, _loop_detected)
        IN  /\ Len(_steps) = 0 =>
                j = [did |-> "returned", overall_quality |-> "GOOD", security_score |-> JInt(100)]
            /\ judged' = j
            /\ _session_report' = rep
            /\ file' = Recorded(file, rep, _steps, _issues)
    /\ hpc' = "done"
    /\ UNCHANGED <<config, task, _step_counter, _steps, _issues, _loop_detected, analyzer,
                   inFlight, _steps_to_evaluate, nextId>>
    /\ UNCHANGED exceptHook

Next ==
    \/ OnSessionStart
    \/ OnMessageAdded
    \/ OnBeforeTool
    \/ OnAfterTool
    \/ OnSessionEnd
    \/ EvaluateStepRelevance
    \/ RunAiEvaluation

Init == StoreInit /\ AtomicIdle /\ RaceIdle /\ MaskIdle /\ HookInit /\ GuardIdle /\ ResumeIdle /\ AuthIdle /\ NormIdle /\ EvalIdle /\ RunIdle /\ RegIdle /\ OrderIdle /\ BroadcastIdle /\ ReadIdle /\ ExecIdle /\ AccessIdle

Spec == Init /\ [][Next]_vars

----------------------------------------------------------------------------
(* The claims about the pipeline.  The final state of a session is the     *)
(* report once _on_session_end has returned, and the session file at any   *)
(* time (it is what remains when the judge never returns).                 *)

PersistedIssues ==
    LET v == Get(file, "issues").v
    IN  [i \in 1..Len(v) |-> QualityIssue(v[i].issue_type.v, v[i].severity.v)]

FinalReports ==
    (IF hpc = "done"
     THEN {[overall_quality |-> _session_report.overall_quality,
            security_score  |-> _session_report.security_score,
            issues          |-> _issues,
            loop            |-> _loop_detected \/ HasIssue(_issues, {"INFINITE_LOOP"}, 8)]}
     ELSE {})
    \cup
    (IF file /= NoFile
     THEN {[overall_quality |-> Get(file, "overall_quality").v,
            security_score  |-> Get(file, "security_score"),
            issues          |-> PersistedIssues,
            loop            |-> Get(file, "loop_detected").v
                                \/ HasIssue(PersistedIssues, {"INFINITE_LOOP"}, 8)]}
     ELSE {})

\* C1: the step_number values of the persisted session's steps are exactly
\* 1, 2, ..., len(steps).
C1_StepNumbersDense ==
    file /= NoFile =>
        \A i \in 1..Len(ListOrSteps(file)) : Get(ListOrSteps(file)[i], "step_number") = JInt(i)

\* C7: a session whose issues hold an INFINITE_LOOP of severity 8 or more
\* ends with overall_quality STUCK, whatever the judge returned and when the
\* judge fails or never returns.
C7_LoopEndsStuck ==
    \A r \in FinalReports :
        HasIssue(r.issues, {"INFINITE_LOOP"}, 8) => r.overall_quality = "STUCK"

\* the judge returned EXCELLENT for a session with a loop
C7_Witness ==
    /\ hpc = "done"
    /\ judged.did = "returned" /\ judged.overall_quality = "EXCELLENT"
    /\ HasIssue(_issues, {"INFINITE_LOOP"}, 8)
    /\ _session_report.overall_quality = "STUCK"

\* C8 as stated: a session whose issues hold a hard-security issue of
\* severity 8 or more ends with overall_quality FAILED.
C8_HardSecurityEndsFailed ==
    \A r \in FinalReports :
        HasIssue(r.issues, HARD_SECURITY_TYPES, 8) => r.overall_quality = "FAILED"

\* C8: a session whose issues hold a hard-security issue of severity 8 or
\* more ends with overall_quality FAILED whatever the judge returned, unless a
\* loop was detected too: then it ends STUCK.
C8_HardSecurityEndsFailedUnlessLoop ==
    \A r \in FinalReports :
        HasIssue(r.issues, HARD_SECURITY_TYPES, 8) =>
            r.overall_quality = IF r.loop THEN "STUCK" ELSE "FAILED"

\* the judge returned EXCELLENT for a session with a shell=True call and no loop
C8_Witness ==
    /\ hpc = "done"
    /\ judged.did = "returned" /\ judged.overall_quality = "EXCELLENT"
    /\ HasIssue(_issues, {"SECURITY_BYPASS"}, 8)
    /\ ~HasIssue(_issues, {"INFINITE_LOOP"}, 8)
    /\ _session_report.overall_quality = "FAILED"

\* C9: a session whose issues hold a hard-security issue of severity 8 or
\* more ends with a security_score of at most 40, and of at most 20 when one
\* of them is a PROMPT_INJECTION or DATA_EXFILTRATION, whatever the judge's
\* score.
C9_SecurityScoreCapped ==
    \A r \in FinalReports :
        HasIssue(r.issues, HARD_SECURITY_TYPES, 8) =>
            /\ r.security_score /= JNull
            /\ r.security_score.v <= 40
            /\ HasIssue(r.issues, {"PROMPT_INJECTION", "DATA_EXFILTRATION"}, 8) =>
                    r.security_score.v <= 20

\* the judge returned the score 100 for a session with a DATA_EXFILTRATION
C9_Witness ==
    /\ hpc = "done"
    /\ judged.did = "returned" /\ judged.security_score = JInt(100)
    /\ HasIssue(_issues, {"DATA_EXFILTRATION"}, 8)
    /\ _session_report.security_score = JInt(20)

----------------------------------------------------------------------------
(* SpecGuard: one NornHook built without AI evaluation, in either mode and *)
(* with either the default thresholds or small ones, observing an agent    *)
(* whose tool executor runs one call at a time: session start, then        *)
(* BeforeToolCallEvent and AfterToolCallEvent per call, then the session's *)
(* end.                                                                    *)

\* NornHook.__init__, interceptor.py lines 100-113: the defaults
DEFAULT_MAX_STEPS == 50
DEFAULT_LOOP_WINDOW == 5
DEFAULT_LOOP_THRESHOLD == 3
DEFAULT_MAX_SAME_TOOL == 10

\* the thresholds a hook is built with: the defaults, or small ones
GuardParams ==
    {[max_steps |-> DEFAULT_MAX_STEPS, loop_window |-> DEFAULT_LOOP_WINDOW,
      loop_threshold |-> DEFAULT_LOOP_THRESHOLD, max_same_tool |-> DEFAULT_MAX_SAME_TOOL],
     [max_steps |-> max_steps, loop_window |-> loop_window,
      loop_threshold |-> loop_threshold, max_same_tool |-> max_same_tool]}

\* the tool calls the agent may make as its n-th call: wait with a fresh
\* nonce, the same read again, a shell command
GuardCalls(n) ==
    {[name |-> "wait", input |-> [nonce |-> JInt(n)]],
     [name |-> "read", input |-> [path |-> JStr("a")]],
     [name |-> "run",  input |-> [shell |-> JBool(TRUE)]]}

\* how a call of a tool may end: wait returns, read returns or returns a
\* result dict with status "error", run returns or raises
GuardOutcomes(tool_name) ==
    CASE tool_name = "wait" -> {"ok"}
      [] tool_name = "read" -> {"ok", "error"}
      [] tool_name = "run"  -> {"ok", "exception"}

GuardInit ==
    /\ config \in [mode : {"monitor", "intervene"}, enable_ai_eval : {FALSE}]
    /\ task = TRUE
    /\ HookNew
    /\ params \in GuardParams
    /\ trace = <<>>

\* lines 564-568 without the comparison with max_steps being strict
MutMaxStepsExceeded(step_counter, limit, mode) ==
    step_counter > limit + 1 /\ mode = "intervene"

\* lines 564-568 without the test of the mode
MutMaxStepsExceededAnyMode(step_counter, limit, mode) ==
    step_counter > limit

\* lines 564-568: the step counter is over max_steps and the mode is INTERVENE
MaxStepsExceeded(step_counter, limit, mode) ==
    step_counter > limit /\ mode = "intervene"

\* _on_before_tool, lines 529-568, of a hook with the thresholds params
GuardBeforeTool ==
    /\ hpc = "running"
    /\ inFlight = <<>>
    /\ _step_counter < MaxGuardCalls
    /\ \E call \in GuardCalls(_step_counter + 1) :
        LET analysis == AnalyzeStep(analyzer, call.name, call.input, params.loop_window,
                                    params.loop_threshold, params.max_same_tool)
            recorded == RecordIssues([issues |-> _issues, loop_detected |-> _loop_detected,
                                      breach |-> _session_report.security_breach_detected,
                                      cancel_tool |-> FALSE],
                                     analysis.issues, config.mode)
            cancel_tool == \/ recorded.cancel_tool
                           \/ MaxStepsExceeded(_step_counter + 1, params.max_steps, config.mode)
        IN  /\ analyzer' = analysis.state
            /\ _issues' = recorded.issues
            /\ _loop_detected' = recorded.loop_detected
            /\ _session_report' =
                [_session_report EXCEPT !.security_breach_detected = recorded.breach]
            /\ inFlight' = <<[name |-> call.name, input |-> call.input,
                              cancel_tool |-> cancel_tool]>>
            /\ trace' = Append(trace, [name |-> call.name, input |-> call.input,
                                       status |-> analysis.status, issues |-> analysis.issues,
                                       cancel_tool |-> cancel_tool, outcome |-> "pending"])
    /\ _step_counter' = _step_counter + 1
    /\ UNCHANGED <<config, task, hpc, _steps, _steps_to_evaluate, judged, file, nextId, params>>
    /\ UNCHANGED exceptGuard

\* _on_after_tool, lines 570-617; the framework answers a cancelled call
\* with an error result and calls the hook with it
GuardAfterTool ==
    /\ hpc = "running"
    /\ inFlight /= <<>>
    /\ \E outcome \in IF inFlight[1].cancel_tool THEN {"error"}
                      ELSE GuardOutcomes(inFlight[1].name) :
        LET call == inFlight[1]
            status == IF outcome = "exception" THEN "FAILED"
                      ELSE IF HasIssue(_issues, {"INFINITE_LOOP"}, 1) THEN "REDUNDANT"
                      ELSE IF outcome = "error" THEN "FAILED"
                      ELSE "SUCCESS"
        IN  /\ _steps' = Append(_steps,
                    [step_id         |-> StepId(nextId),
                     step_number     |-> JInt(_step_counter),
                     tool_name       |-> JStr(call.name),
                     tool_input      |-> JMap(_mask_sensitive(call.input)),
                     status          |-> JStr(status),
                     relevance_score |-> JNull,
                     security_score  |-> JNull,
                     reasoning       |-> JStr("")])
            /\ trace' = [trace EXCEPT ![Len(trace)].outcome = outcome]
    /\ inFlight' = <<>>
    /\ nextId' = nextId + 1
    /\ UNCHANGED <<config, task, hpc, _step_counter, _issues, _loop_detected, analyzer,
                   _steps_to_evaluate, _session_report, judged, file, params>>
    /\ UNCHANGED exceptGuard

\* _on_session_end, lines 407-452, of a hook without AI evaluation: the
\* counts, check_efficiency, _finalize_report
GuardSessionEnd ==
    /\ hpc = "running"
    /\ inFlight = <<>>
    /\ LET all_issues == _issues \o If(2 * Len(_steps) > 3 * params.max_steps,
                                       QualityIssue("INEFFICIENCY", 5))
           rep == Finalized([_session_report EXCEPT !.total_steps = Len(_steps),
                                                    !.loop_detected = _loop_detected],
                            all_issues, _loop_detected)
       IN  /\ _issues' = all_issues
           /\ _session_report' = rep
           /\ file' = Recorded(file, rep, _steps, all_issues)
    /\ hpc' = "done"
    /\ UNCHANGED <<config, task, _step_counter, _steps, _loop_detected, analyzer, inFlight,
                   _steps_to_evaluate, judged, nextId, params, trace>>
    /\ UNCHANGED exceptGuard

GuardNext ==
    \/ OnSessionStart
    \/ GuardBeforeTool
    \/ GuardAfterTool
    \/ GuardSessionEnd

InitGuard == StoreInit /\ AtomicIdle /\ RaceIdle /\ MaskIdle /\ GuardInit /\ ResumeIdle /\ AuthIdle /\ NormIdle /\ EvalIdle /\ RunIdle /\ RegIdle /\ OrderIdle /\ BroadcastIdle /\ ReadIdle /\ ExecIdle /\ AccessIdle

SpecGuard == InitGuard /\ [][GuardNext]_vars

----------------------------------------------------------------------------
(* SpecResume: a hook built with norn_url and a session_id, in monitor     *)
(* mode and without AI evaluation, run after run on the same session_id,   *)
(* and the dashboard that keeps the session file: the hook's POSTs to      *)
(* /api/sessions/ingest and /api/sessions/{id}/step with the endpoints     *)
(* that serve them, and the dashboard user's delete-step requests.  A POST *)
(* is answered or fails (_post_to_dashboard gives up after half a second   *)
(* and never raises).  The hook's own audit directory is not the           *)
(* dashboard's.                                                            *)

\* invocations of the agent in one behaviour of SpecResume
MaxRuns == 2
\* tool calls in one invocation
MaxResumeCalls == 2

\* _dashboard_on_session_start, lines 866-876: the body of the ingest request
IngestPayload ==
    [agent_id |-> JStr("hook-1"), task |-> JStr("t"), swarm_id |-> JNull]

\* _dashboard_send_step, lines 893-905: the body of the step request
StepPayload(step) ==
    [step_id         |-> step.step_id,
     step_number     |-> step.step_number,
     tool_name       |-> step.tool_name,
     tool_input      |-> StrOf(step.tool_input),
     status          |-> step.status,
     relevance_score |-> step.relevance_score,
     security_score  |-> step.security_score,
     reasoning       |-> step.reasoning]

\* the step_number values of the steps of a stored session, in their order
StoredNumbers(session) ==
    [i \in 1..Len(ListOrSteps(session)) |-> Get(ListOrSteps(session)[i], "step_number")]

\* StepAnalyzer.reset, step_analyzer.py lines 205-209: the three collections are cleared
MutAnalyzerReset(st) == st
AnalyzerReset(st) == [recent |-> <<>>, tool_counter |-> <<>>, input_hashes |-> {}]

\* _on_session_start, lines 180-253, with _dashboard_on_session_start, lines
\* 850-886, and ingest_session, sessions.py lines 187-251
ResumeSessionStart ==
    /\ hpc \in {"new", "done"}
    /\ nRuns < MaxRuns
    /\ \E registered \in BOOLEAN : \E answered \in BOOLEAN :
        LET resumed == registered /\ answered
            stored == IngestSession(file, IngestPayload)
            existing_steps == ListOrSteps(stored)
        IN  /\ streaming' = registered
            /\ file' = IF resumed THEN stored ELSE file
            /\ _existing_step_count' = IF resumed THEN Len(existing_steps) ELSE 0
            /\ _step_counter' = IF resumed THEN Len(existing_steps) ELSE 0
            /\ resumedFrom' = [received |-> resumed,
                               numbers |-> IF resumed THEN StoredNumbers(stored) ELSE <<>>]
    /\ _steps' = <<>>
    /\ _issues' = <<>>
    /\ _loop_detected' = FALSE
    /\ _steps_to_evaluate' = <<>>
    /\ analyzer' = AnalyzerReset(analyzer)
    /\ _session_report' =
            [task |-> task, overall_quality |-> "PENDING", security_score |-> JNull,
             total_steps |-> 0, loop_detected |-> FALSE, security_breach_detected |-> FALSE]
    /\ hpc' = "running"
    /\ nRuns' = nRuns + 1
    /\ UNCHANGED <<config, task, inFlight, judged, nextId, prevFile, lastOp, nOps>>
    /\ UNCHANGED <<rawInput, stepInput, sentInput, atomicVars, raceVars, guardVars, authVars, normVars, evalVars, runVars, regVars, orderVars, bcVars, readVars, execVars, accessVars>>

\* _on_before_tool, lines 529-568: the agent calls read(path="a")
ResumeBeforeTool ==
    /\ hpc = "running"
    /\ Len(inFlight) < MaxInFlight
    /\ _step_counter - _existing_step_count < MaxResumeCalls
    /\ LET analysis == AnalyzeStep(analyzer, "read", [path |-> JStr("a")], params.loop_window,
                                   params.loop_threshold, params.max_same_tool)
           recorded == RecordIssues([issues |-> _issues, loop_detected |-> _loop_detected,
                                     breach |-> _session_report.security_breach_detected,
                                     cancel_tool |-> FALSE],
                                    analysis.issues, config.mode)
       IN  /\ analyzer' = analysis.state
           /\ _issues' = recorded.issues
           /\ _loop_detected' = recorded.loop_detected
           /\ _session_report' =
                [_session_report EXCEPT !.security_breach_detected = recorded.breach]
           /\ inFlight' = Append(inFlight,
                [name |-> "read", input |-> [path |-> JStr("a")],
                 cancel_tool |-> \/ recorded.cancel_tool
                                 \/ MaxStepsExceeded(_step_counter + 1, params.max_steps,
                                                     config.mode)])
    /\ _step_counter' = _step_counter + 1
    /\ UNCHANGED <<config, task, hpc, _steps, _steps_to_evaluate, judged, file, nextId,
                   prevFile, lastOp, nOps>>
    /\ UNCHANGED <<atomicVars, raceVars, maskVars, guardVars, resumeVars, authVars, normVars, evalVars, runVars, regVars, orderVars, bcVars, readVars, execVars, accessVars>>

\* _on_after_tool, lines 570-617, with _dashboard_send_step, lines 888-906, and
\* add_session_step, sessions.py lines 254-282
ResumeAfterTool ==
    /\ hpc = "running"
    /\ \E i \in 1..Len(inFlight) : \E outcome \in GuardOutcomes(inFlight[i].name) :
       \E answered \in BOOLEAN :
        LET call == inFlight[i]
            status == IF outcome = "exception" THEN "FAILED"
                      ELSE IF HasIssue(_issues, {"INFINITE_LOOP"}, 1) THEN "REDUNDANT"
                      ELSE IF outcome = "error" THEN "FAILED"
                      ELSE "SUCCESS"
            step == [step_id         |-> StepId(nextId),
                     step_number     |-> JInt(_step_counter),
                     tool_name       |-> JStr(call.name),
                     tool_input      |-> JMap(_mask_sensitive(call.input)),
                     status          |-> JStr(status),
                     relevance_score |-> JNull,
                     security_score  |-> JNull,
                     reasoning       |-> JStr("")]
        IN  /\ _steps' = Append(_steps, step)
            /\ file' = IF streaming /\ answered /\ file /= NoFile
                       THEN AddSessionStep(file, StepPayload(step)) ELSE file
            /\ inFlight' = [j \in 1..(Len(inFlight) - 1) |->
                                IF j < i THEN inFlight[j] ELSE inFlight[j + 1]]
    /\ nextId' = nextId + 1
    /\ UNCHANGED <<config, task, hpc, _step_counter, _issues, _loop_detected, analyzer,
                   _steps_to_evaluate, _session_report, judged, prevFile, lastOp, nOps>>
    /\ UNCHANGED <<atomicVars, raceVars, maskVars, guardVars, resumeVars, authVars, normVars, evalVars, runVars, regVars, orderVars, bcVars, readVars, execVars, accessVars>>

\* _on_session_end, lines 407-452, and _finalize_report, lines 758-806: the
\* report goes to the hook's audit directory; _dashboard_complete_session
\* reads report.swarm_id (line 939), which SessionReport does not have, and
\* raises before it posts
ResumeSessionEnd ==
    /\ hpc = "running"
    /\ inFlight = <<>>
    /\ LET all_issues == _issues \o If(2 * Len(_steps) > 3 * params.max_steps,
                                       QualityIssue("INEFFICIENCY", 5))
       IN  /\ _issues' = all_issues
           /\ _session_report' =
                Finalized([_session_report EXCEPT !.total_steps = Len(_steps),
                                                  !.loop_detected = _loop_detected],
                          all_issues, _loop_detected)
    /\ hpc' = "done"
    /\ UNCHANGED <<config, task, _step_counter, _steps, _loop_detected, analyzer, inFlight,
                   _steps_to_evaluate, judged, file, nextId, prevFile, lastOp, nOps>>
    /\ UNCHANGED <<atomicVars, raceVars, maskVars, guardVars, resumeVars, authVars, normVars, evalVars, runVars, regVars, orderVars, bcVars, readVars, execVars, accessVars>>

\* delete_step, sessions.py lines 333-352, asked by the dashboard's user
ResumeDeleteStep ==
    /\ file /= NoFile
    /\ \E i \in 1..Len(ListOrSteps(file)) :
        file' = DeleteStep(file, Get(ListOrSteps(file)[i], "step_id"))
    /\ UNCHANGED <<nextId, prevFile, lastOp, nOps>>
    /\ UNCHANGED <<atomicVars, raceVars, maskVars, hookVars, guardVars, resumeVars, authVars, normVars, evalVars, runVars, regVars, orderVars, bcVars, readVars, execVars, accessVars>>

ResumeNext ==
    \/ ResumeSessionStart
    \/ ResumeBeforeTool
    \/ ResumeAfterTool
    \/ ResumeSessionEnd
    \/ ResumeDeleteStep

InitResume ==
    StoreInit /\ AtomicIdle /\ RaceIdle /\ MaskIdle /\ HookIdle /\ GuardIdle /\ ResumeIdle /\ AuthIdle /\ NormIdle /\ EvalIdle /\ RunIdle /\ RegIdle /\ OrderIdle /\ BroadcastIdle /\ ReadIdle /\ ExecIdle /\ AccessIdle

SpecResume == InitResume /\ [][ResumeNext]_vars

----------------------------------------------------------------------------
(* SpecAuth: the dashboard's endpoints on one session file and the         *)
(* WebSocket subscribers, under requests that carry no key, a wrong key or *)
(* the configured one.  An endpoint declared with                          *)
(* dependencies=[Depends(verify_api_key)] runs its handler only when the   *)
(* dependency returns; the other endpoints run theirs at once.             *)

\* requests in one behaviour of SpecAuth
MaxRequests == 3

\* the X-API-Key header or api_key query parameter of a request
ApiKeys == {"none", "wrong", "k"}

\* verify_api_key, shared.py lines 101-107: TRUE when it returns, FALSE when
\* it raises HTTPException(401)
verify_api_key(key) == API_KEY = "" \/ key = API_KEY

AuthInit ==
    /\ API_KEY \in {"", "k"}
    /\ active_connections = {}
    /\ request = [endpoint |-> "none", key |-> "none", code |-> 0, connections |-> {}]

\* the answer to a request, with the subscribers there were when it came
Answered(endpoint, key, code) ==
    /\ request' = [endpoint |-> endpoint, key |-> key, code |-> code,
                   connections |-> active_connections]
    /\ prevFile' = file
    /\ nOps' = nOps + 1

\* POST /api/sessions/ingest, sessions.py lines 187-251: no dependency
AuthIngest ==
    /\ nOps < MaxRequests
    /\ \E key \in ApiKeys : \E data \in IngestBodies :
        /\ file' = IngestSession(file, data)
        /\ Answered("ingest_session", key, 200)
    /\ UNCHANGED <<lastOp, nextId, API_KEY, active_connections>>
    /\ UNCHANGED <<atomicVars, raceVars, maskVars, hookVars, guardVars, resumeVars, normVars, evalVars, runVars, regVars, orderVars, bcVars, readVars, execVars, accessVars>>

\* POST /api/sessions/{session_id}/step, lines 254-282: no dependency
AuthAddStep ==
    /\ nOps < MaxRequests
    /\ \E key \in ApiKeys :
        IF file = NoFile
        THEN /\ Answered("add_session_step", key, 404)
             /\ UNCHANGED <<file, nextId>>
        ELSE /\ file' = AddSessionStep(file, StreamedStep(nextId, "{}"))
             /\ nextId' = nextId + 1
             /\ Answered("add_session_step", key, 200)
    /\ UNCHANGED <<lastOp, API_KEY, active_connections>>
    /\ UNCHANGED <<atomicVars, raceVars, maskVars, hookVars, guardVars, resumeVars, normVars, evalVars, runVars, regVars, orderVars, bcVars, readVars, execVars, accessVars>>

\* POST /api/sessions/{session_id}/complete, lines 285-317: no dependency
AuthComplete ==
    /\ nOps < MaxRequests
    /\ \E key \in ApiKeys : \E data \in CompleteBodies :
        IF file = NoFile
        THEN /\ Answered("complete_session", key, 404)
             /\ UNCHANGED file
        ELSE /\ file' = CompleteSession(file, data)
             /\ Answered("complete_session", key, 200)
    /\ UNCHANGED <<lastOp, nextId, API_KEY, active_connections>>
    /\ UNCHANGED <<atomicVars, raceVars, maskVars, hookVars, guardVars, resumeVars, normVars, evalVars, runVars, regVars, orderVars, bcVars, readVars, execVars, accessVars>>

\* DELETE /api/sessions/{session_id}, lines 320-330: behind verify_api_key
AuthDeleteSession ==
    /\ nOps < MaxRequests
    /\ \E key \in ApiKeys :
        IF ~verify_api_key(key)
        THEN /\ Answered("delete_session", key, 401)
             /\ UNCHANGED file
        ELSE IF file = NoFile
        THEN /\ Answered("delete_session", key, 404)
             /\ UNCHANGED file
        ELSE /\ file' = NoFile
             /\ Answered("delete_session", key, 200)
    /\ UNCHANGED <<lastOp, nextId, API_KEY, active_connections>>
    /\ UNCHANGED <<atomicVars, raceVars, maskVars, hookVars, guardVars, resumeVars, normVars, evalVars, runVars, regVars, orderVars, bcVars, readVars, execVars, accessVars>>

\* GET /api/swarms/{swarm_id}, swarms.py lines 129-142: no dependency; the
\* answer holds the swarm's sessions
AuthGetSwarm ==
    /\ nOps < MaxRequests
    /\ \E key \in ApiKeys :
        Answered("get_swarm", key,
                 IF file /= NoFile /\ Get(file, "swarm_id") = JStr("sw1") THEN 200 ELSE 404)
    /\ UNCHANGED <<file, lastOp, nextId, API_KEY, active_connections>>
    /\ UNCHANGED <<atomicVars, raceVars, maskVars, hookVars, guardVars, resumeVars, normVars, evalVars, runVars, regVars, orderVars, bcVars, readVars, execVars, accessVars>>

\* /ws/sessions, websocket.py lines 47-60: the key is compared in the
\* handler, which closes with 4001 or has the manager accept and subscribe
\* the client (101)
AuthWebSocket ==
    /\ nOps < MaxRequests
    /\ \E key \in ApiKeys :
        IF API_KEY /= "" /\ key /= API_KEY
        THEN /\ Answered("websocket_sessions", key, 4001)
             /\ UNCHANGED active_connections
        ELSE /\ active_connections' = active_connections \cup {nOps + 1}
             /\ Answered("websocket_sessions", key, 101)
    /\ UNCHANGED <<file, lastOp, nextId, API_KEY>>
    /\ UNCHANGED <<atomicVars, raceVars, maskVars, hookVars, guardVars, resumeVars, normVars, evalVars, runVars, regVars, orderVars, bcVars, readVars, execVars, accessVars>>

AuthNext ==
    \/ AuthIngest
    \/ AuthAddStep
    \/ AuthComplete
    \/ AuthDeleteSession
    \/ AuthGetSwarm
    \/ AuthWebSocket

InitAuth ==
    StoreInit /\ AtomicIdle /\ RaceIdle /\ MaskIdle /\ HookIdle /\ GuardIdle /\ ResumeIdle /\ AuthInit /\ NormIdle /\ EvalIdle /\ RunIdle /\ RegIdle /\ OrderIdle /\ BroadcastIdle /\ ReadIdle /\ ExecIdle /\ AccessIdle

SpecAuth == InitAuth /\ [][AuthNext]_vars

----------------------------------------------------------------------------
(* The claims about the analyzer and the interventions.  The i-th entry of *)
(* trace is the i-th BeforeToolCallEvent of the session, whose incremented *)
(* step counter is i; once its AfterToolCallEvent has come, _steps[i] is   *)
(* the step recorded for it.                                               *)

Signature(i) == <<trace[i].name, trace[i].input>>

\* the calls among the last w calls up to the i-th
LastCalls(i, w) == {j \in 1..i : j > i - w}

\* one signature is that of loop_threshold or more of the last loop_window
\* calls up to the i-th
SignatureRepeats(i) ==
    \E j \in LastCalls(i, params.loop_window) :
        Cardinality({k \in LastCalls(i, params.loop_window) : Signature(k) = Signature(j)})
            >= params.loop_threshold

Emitted(i, issue_type, min_severity) == HasIssue(trace[i].issues, {issue_type}, min_severity)

\* C11 as stated: at any call at which one signature has occurred
\* loop_threshold or more times among the last loop_window calls, an
\* INFINITE_LOOP issue has been emitted at or before that call.
C11_LoopEmittedOnRepeats ==
    \A i \in 1..Len(trace) :
        SignatureRepeats(i) => \E j \in 1..i : Emitted(j, "INFINITE_LOOP", 1)

\* C11: at any call that is the loop_window-th of the session or a later
\* one, and at which one signature has occurred loop_threshold or more times
\* among the last loop_window calls, the analyzer emits an INFINITE_LOOP
\* issue of severity 9.
C11_LoopEmittedOnRepeatsInFullWindow ==
    \A i \in 1..Len(trace) :
        i >= params.loop_window /\ SignatureRepeats(i) => Emitted(i, "INFINITE_LOOP", 9)

\* the default thresholds: the fifth call, the third read among wait calls
C11_Witness ==
    /\ params.loop_window = DEFAULT_LOOP_WINDOW
    /\ params.max_same_tool = DEFAULT_MAX_SAME_TOOL
    /\ Len(trace) = 5
    /\ Cardinality({i \in 1..5 : trace[i].name = "read"}) = 3
    /\ trace[5].name = "read"
    /\ Emitted(5, "INFINITE_LOOP", 9)
    /\ \A i \in 1..4 : ~Emitted(i, "INFINITE_LOOP", 1)

\* the calls of the tool of the i-th call among the calls in from..to
SameTool(i, from, to) == {j \in 1..i : j >= from /\ j <= to /\ trace[j].name = trace[i].name}

\* C12 as stated: at a call that is the third or a later appearance of its
\* tool name among the last loop_window calls, the appearances having
\* different inputs, a SUSPICIOUS_BEHAVIOR issue has been emitted at or
\* before that call.
C12_EvasionEmittedAtThird ==
    \A i \in 1..Len(trace) :
        LET same == SameTool(i, i - params.loop_window + 1, i)
        IN  /\ Cardinality(same) >= 3
            /\ \A j, k \in same : j /= k => trace[j].input /= trace[k].input
            => \E j \in 1..i : Emitted(j, "SUSPICIOUS_BEHAVIOR", 1)

\* C12: at a call whose tool name already appears three or more times among
\* the loop_window calls before it, whatever their inputs, a
\* SUSPICIOUS_BEHAVIOR issue of severity 7 is emitted: at the fourth call of a
\* session of consecutive calls to one tool, when loop_window is 3 or more.
C12_EvasionEmittedAfterThird ==
    \A i \in 1..Len(trace) :
        Cardinality(SameTool(i, i - params.loop_window, i - 1)) >= 3
            => Emitted(i, "SUSPICIOUS_BEHAVIOR", 7)

\* four wait calls with four nonces: the issue comes at the fourth, not before
C12_Witness ==
    /\ Len(trace) = 4
    /\ \A i \in 1..4 : trace[i].name = "wait"
    /\ Emitted(4, "SUSPICIOUS_BEHAVIOR", 7)
    /\ \A i \in 1..3 : ~Emitted(i, "SUSPICIOUS_BEHAVIOR", 1)

DefaultParams ==
    /\ params.max_steps = DEFAULT_MAX_STEPS
    /\ params.loop_window = DEFAULT_LOOP_WINDOW
    /\ params.loop_threshold = DEFAULT_LOOP_THRESHOLD
    /\ params.max_same_tool = DEFAULT_MAX_SAME_TOOL

\* C13: under the default configuration, a session of six consecutive wait
\* calls, each with a fresh nonce, gets an INFINITE_LOOP issue of severity 9
\* at some step from step loop_threshold on and ends with overall_quality
\* STUCK.
C13_NonceLoopEndsStuck ==
    /\ DefaultParams
    /\ hpc = "done"
    /\ Len(trace) = 6
    /\ \A i \in 1..6 : trace[i].name = "wait"
    => /\ \E i \in params.loop_threshold..6 : Emitted(i, "INFINITE_LOOP", 9)
       /\ _session_report.overall_quality = "STUCK"

\* C14: in intervene mode, every BeforeToolCallEvent at which the analyzer
\* raises an INFINITE_LOOP issue of severity 8 or more has its tool call
\* cancelled.
C14_LoopCancelsCall ==
    config.mode = "intervene" =>
        \A i \in 1..Len(trace) : Emitted(i, "INFINITE_LOOP", 8) => trace[i].cancel_tool

\* C15 as stated: every BeforeToolCallEvent whose incremented step counter
\* exceeds max_steps has its tool call cancelled.
C15_OverMaxStepsCancelled ==
    \A i \in 1..Len(trace) : i > params.max_steps => trace[i].cancel_tool

\* C15: in intervene mode, every BeforeToolCallEvent whose incremented step
\* counter exceeds max_steps has its tool call cancelled; in monitor mode no
\* call is cancelled.
C15_OverMaxStepsCancelledInIntervene ==
    \A i \in 1..Len(trace) :
        IF config.mode = "intervene"
        THEN i > params.max_steps => trace[i].cancel_tool
        ELSE ~trace[i].cancel_tool

\* a read past max_steps, with no security issue of its own, is cancelled
C15_Witness ==
    /\ config.mode = "intervene"
    /\ Len(trace) > params.max_steps
    /\ trace[Len(trace)].name = "read"
    /\ ~Emitted(Len(trace), "SECURITY_BYPASS", 1)
    /\ trace[Len(trace)].cancel_tool
    /\ trace[Len(trace)].outcome = "error"

StepStatus(i) == _steps[i].status.v

\* C16: every tool call cancelled at BeforeToolCallEvent is recorded in the
\* session as a step whose status is BLOCKED.
C16_CancelledRecordedBlocked ==
    \A i \in 1..Len(_steps) : trace[i].cancel_tool => StepStatus(i) = "BLOCKED"

\* C17: the status recorded at AfterToolCallEvent is FAILED whenever the
\* framework reported an exception or the result carries an error status,
\* whatever loop or redundancy findings the session has.
C17_ErrorRecordedFailed ==
    \A i \in 1..Len(_steps) :
        trace[i].outcome \in {"exception", "error"} => StepStatus(i) = "FAILED"

\* C18: a step that did not fail is recorded REDUNDANT if and only if the
\* analyzer flagged that very call as an exact duplicate of an earlier call,
\* and SUCCESS otherwise; the second of two identical calls is recorded
\* REDUNDANT with exactly one INEFFICIENCY issue of severity 3.
C18_RedundantIffDuplicate ==
    \A i \in 1..Len(_steps) :
        StepStatus(i) /= "FAILED" =>
            /\ StepStatus(i) = IF trace[i].status = "REDUNDANT" THEN "REDUNDANT" ELSE "SUCCESS"
            /\ i = 2 /\ Signature(2) = Signature(1) =>
                    Cardinality({k \in 1..Len(trace[2].issues) :
                                    trace[2].issues[k] = QualityIssue("INEFFICIENCY", 3)}) = 1

\* C19: when a run starts on a session_id whose stored session holds N
\* steps (N >= 1), the first step it records has step_number N+1, the later
\* steps follow in strict order, and no step_number of the stored session is
\* assigned again.
C19_ResumeNumbering ==
    resumedFrom.received /\ Len(resumedFrom.numbers) >= 1 =>
        /\ Len(_steps) >= 1 => _steps[1].step_number = JInt(Len(resumedFrom.numbers) + 1)
        /\ \A i, j \in 1..Len(_steps) : i < j => _steps[i].step_number.v < _steps[j].step_number.v
        /\ \A i \in 1..Len(_steps) : \A k \in 1..Len(resumedFrom.numbers) :
                _steps[i].step_number /= resumedFrom.numbers[k]

\* C20: with an API key configured, a request to a session, swarm or
\* WebSocket endpoint that lacks the correct key is rejected (401, or the
\* WebSocket closed with 4001), and it changes no stored state and adds no
\* subscriber.
C20_AuthGate ==
    API_KEY /= "" /\ request.endpoint /= "none" /\ request.key /= API_KEY =>
        /\ request.code \in {401, 4001}
        /\ file = prevFile
        /\ active_connections = request.connections

----------------------------------------------------------------------------
(* normalize_session (norn/routers/sessions.py lines 27-141), applied to a *)
(* session and then to its own result at the same clock time.  A timestamp *)
(* is [t |-> "time", v |-> minutes]; a tool result is a text, a sequence   *)
(* of characters, so that its length and its first 300 characters are what *)
(* the code computes.                                                      *)

\* list items (issues, steps) of one session of SpecNormalize
MaxNormItems == 1

\* line 73: results longer than this are cut
RESULT_DISPLAY_LIMIT == 300
\* line 112: an active session older than this is stale
STALE_MINUTES == 5

Text(chars) == [t |-> "text", v |-> chars]
Time(minutes) == [t |-> "time", v |-> minutes]

\* dict.get(k, default)
GetOr(d, k, default) == IF k \in DOMAIN d THEN d[k] ELSE default

\* Python's `a or b`
Or(a, b) == IF Falsy(a) THEN b ELSE a

\* str(v) of a value that is not a tool result
Str(v) ==
    CASE v = JNull    -> JStr("None")
      [] v.t = "int"  -> JStr(ToString(v.v))
      [] v.t = "bool" -> JStr(IF v.v THEN "True" ELSE "False")
      [] OTHER        -> v

\* str(tool_result): the characters
ResultChars(tool_result) ==
    CASE tool_result.t = "text" -> tool_result.v
      [] tool_result = JNull    -> <<"N", "o", "n", "e">>
      [] OTHER                  -> <<>>

\* lines 30-34
TaskStr(value) ==
    IF value.t = "map" THEN GetOr(value.v, "description", JStr("")) ELSE Str(value)

\* lines 40-55
NormalizedIssue(issue) ==
    IF issue.t = "map"
    THEN JMap([issue_id       |-> GetOr(issue.v, "issue_id", JStr("")),
               issue_type     |-> GetOr(issue.v, "issue_type", JStr("NONE")),
               severity       |-> GetOr(issue.v, "severity", JInt(5)),
               description    |-> GetOr(issue.v, "description", JStr("")),
               recommendation |-> GetOr(issue.v, "recommendation", JStr("")),
               affected_steps |-> GetOr(issue.v, "affected_steps", JList(<<>>))])
    ELSE JMap([issue_type     |-> Str(issue),
               severity       |-> JInt(5),
               description    |-> Str(issue),
               recommendation |-> JStr("")])

\* lines 62-67: the dict as 'k=repr(v), ...', '' for the empty dict; a string as it is
InputStr(tool_input) ==
    IF tool_input.t = "map"
    THEN IF DOMAIN tool_input.v = {} THEN JStr("") ELSE [t |-> "kv", of |-> tool_input.v]
    ELSE Str(tool_input)

\* lines 70-74 and 82
ResultStr(tool_result) ==
    LET chars == ResultChars(tool_result)
    IN  IF Len(chars) > RESULT_DISPLAY_LIMIT
        THEN Text(SubSeq(chars, 1, RESULT_DISPLAY_LIMIT) \o <<".", ".", ".">>)
        ELSE Text(chars)

\* lines 60-87; step is a dict
NormalizedStep(step) ==
    JMap([step_id         |-> GetOr(step, "step_id", JStr("")),
          step_number     |-> GetOr(step, "step_number", JInt(0)),
          timestamp       |-> GetOr(step, "timestamp", JStr("")),
          tool_name       |-> Or(GetOr(step, "tool_name", JStr("")), GetOr(step, "action", JStr(""))),
          tool_input      |-> InputStr(GetOr(step, "tool_input", JMap(EmptyDict))),
          tool_result     |-> ResultStr(GetOr(step, "tool_result", Text(<<>>))),
          status          |-> GetOr(step, "status", JStr("SUCCESS")),
          relevance_score |-> Get(step, "relevance_score"),
          security_score  |-> Get(step, "security_score"),
          reasoning       |-> GetOr(step, "reasoning", JStr(""))])

\* lines 90-101: the status derived from quality and completion, then the
\* explicit status when it is active or terminated
DerivedStatus(session) ==
    LET derived ==
            IF \/ ~Falsy(Get(session, "loop_detected"))
               \/ GetOr(session, "overall_quality", JStr("GOOD")) = JStr("STUCK")
            THEN JStr("terminated")
            ELSE IF ~Falsy(Get(session, "ended_at")) \/ ~Falsy(Get(session, "end_time"))
            THEN JStr("completed")
            ELSE JStr("active")
        explicit_status == Get(session, "status")
    IN  IF ~Falsy(explicit_status) /\ explicit_status \in {JStr("active"), JStr("terminated")}
        THEN explicit_status
        ELSE derived

\* lines 105-116: an active session that started more than 5 minutes before
\* now and has no ended_at; a start that fromisoformat rejects is skipped
Stale(session, now) ==
    LET started_at == Or(Get(session, "started_at"), Get(session, "start_time"))
    IN  /\ DerivedStatus(session) = JStr("active")
        /\ ~Falsy(started_at)
        /\ started_at.t = "time"
        /\ now - started_at.v > STALE_MINUTES
        /\ Falsy(Get(session, "ended_at"))

\* lines 27-141
normalize_session(session, now) ==
    [session_id      |-> GetOr(session, "session_id", JStr("")),
     agent_name      |-> GetOr(session, "agent_name", JStr("Unknown")),
     model           |-> Get(session, "model"),
     task            |-> TaskStr(GetOr(session, "task", JStr(""))),
     start_time      |-> Or(Get(session, "started_at"), GetOr(session, "start_time", JStr(""))),
     end_time        |-> Or(Get(session, "ended_at"), Get(session, "end_time")),
     status          |-> IF Stale(session, now) THEN JStr("terminated") ELSE DerivedStatus(session),
     total_steps     |-> GetOr(session, "total_steps", JInt(0)),
     overall_quality |-> IF Stale(session, now) THEN JStr("FAILED")
                         ELSE GetOr(session, "overall_quality", JStr("GOOD")),
     efficiency_score |-> Get(session, "efficiency_score"),
     security_score  |-> Get(session, "security_score"),
     issues          |-> LET issues == GetOr(session, "issues", JList(<<>>)).v
                         IN  JList([i \in 1..Len(issues) |-> NormalizedIssue(issues[i])]),
     steps           |-> LET steps == GetOr(session, "steps", JList(<<>>)).v
                         IN  JList([i \in 1..Len(steps) |-> NormalizedStep(steps[i].v)]),
     ai_evaluation   |-> Get(session, "ai_evaluation"),
     tool_analysis   |-> GetOr(session, "tool_analysis", JList(<<>>)),
     decision_observations |-> GetOr(session, "decision_observations", JList(<<>>)),
     efficiency_explanation |-> GetOr(session, "efficiency_explanation", JStr("")),
     recommendations |-> GetOr(session, "recommendations", JList(<<>>)),
     task_completion |-> GetOr(session, "task_completion", JBool(FALSE)),
     loop_detected   |-> GetOr(session, "loop_detected", JBool(FALSE)),
     security_breach_detected |-> GetOr(session, "security_breach_detected", JBool(FALSE)),
     total_execution_time_ms |-> GetOr(session, "total_execution_time_ms", JInt(0))]

\* ---- the sessions handed to the first call ----

Missing == [t |-> "missing"]

\* the dict of the keys that are present
DictOf(fields) == [k \in {x \in DOMAIN fields : fields[x] /= Missing} |-> fields[k]]

\* sequences over a set, up to MaxNormItems long
RECURSIVE ListsOver(_, _)
ListsOver(items, n) ==
    IF n = 0 THEN {<<>>}
    ELSE LET shorter == ListsOver(items, n - 1)
         IN  shorter \cup {Append(l, x) : l \in {s \in shorter : Len(s) = n - 1}, x \in items}

\* the shapes of an issue: a QualityIssue as write_session stores it, a dict
\* with the type only, a bare string (lines 49-55)
IssueShapes ==
    {JMap([issue_id |-> JStr("i1"), issue_type |-> JStr("TIMEOUT"), severity |-> JInt(8),
           description |-> JStr("timed out"), recommendation |-> JStr("retry"),
           affected_steps |-> JList(<<>>)]),
     JMap([issue_type |-> JStr("TIMEOUT")]),
     JStr("TIMEOUT")}

\* the shapes of a step: a StepRecord as write_session stores it (tool_input
\* a dict, a result of 301 characters), a streamed step (tool_input a string,
\* lines 254-282), a step with an action instead of a tool_name and no result
StepShapes ==
    {JMap([step_id |-> JStr("s1"), step_number |-> JInt(1), tool_name |-> JStr("read"),
           tool_input |-> JMap([path |-> JStr("a")]),
           tool_result |-> Text([i \in 1..(RESULT_DISPLAY_LIMIT + 1) |-> "x"]),
           status |-> JStr("SUCCESS"), relevance_score |-> JInt(90)]),
     JMap([step_id |-> JStr("s1"), step_number |-> JInt(1), tool_name |-> JStr("read"),
           tool_input |-> StrOf(JMap([path |-> JStr("a")])),
           tool_result |-> Text(<<"o", "k">>), status |-> JStr("SUCCESS")]),
     JMap([action |-> JStr("think"), tool_result |-> JNull])}

NormSessions ==
    {DictOf(fields) : fields \in
        [session_id      : {JStr("X")},
         task            : {Missing, JStr("sum the file"), JMap([description |-> JStr("sum the file")])},
         issues          : {JList(l) : l \in ListsOver(IssueShapes, MaxNormItems)},
         steps           : {JList(l) : l \in ListsOver(StepShapes, MaxNormItems)},
         overall_quality : {Missing, JStr("GOOD"), JStr("STUCK")},
         loop_detected   : {Missing, JBool(TRUE)},
         started_at      : {Missing, Time(0), Time(STALE_MINUTES), JStr("yesterday")},
         start_time      : {Missing, Time(0)},
         ended_at        : {Missing, Time(STALE_MINUTES)},
         end_time        : {Missing, Time(STALE_MINUTES)},
         status          : {Missing, JStr("active"), JStr("terminated"), JStr("completed")}]}

NormInit ==
    /\ normClock = STALE_MINUTES + 1
    /\ normInput \in NormSessions
    /\ normOnce = NoFile
    /\ normTwice = NoFile

\* get_session, lines 171-182: the stored session is normalized
NormalizeSession ==
    /\ normOnce = NoFile
    /\ normOnce' = normalize_session(normInput, normClock)
    /\ UNCHANGED <<normClock, normInput, normTwice>>
    /\ UNCHANGED exceptNorm

\* the normalized session is normalized again
NormalizeAgain ==
    /\ normOnce /= NoFile
    /\ normTwice = NoFile
    /\ normTwice' = normalize_session(normOnce, normClock)
    /\ UNCHANGED <<normClock, normInput, normOnce>>
    /\ UNCHANGED exceptNorm

NormNext ==
    \/ NormalizeSession
    \/ NormalizeAgain

InitNorm ==
    StoreInit /\ AtomicIdle /\ RaceIdle /\ MaskIdle /\ HookIdle /\ GuardIdle /\ ResumeIdle /\ AuthIdle /\ NormInit /\ EvalIdle /\ RunIdle /\ RegIdle /\ OrderIdle /\ BroadcastIdle /\ ReadIdle /\ ExecIdle /\ AccessIdle

SpecNormalize == InitNorm /\ [][NormNext]_vars

\* C21: normalization is idempotent: for every session, whatever its explicit
\* status, its start and end times, the shapes of its issues and of its
\* steps, normalizing the normalized session at the same clock time gives
\* the normalized session again.
C21_NormalizeIdempotent == normTwice /= NoFile => normTwice = normOnce

----------------------------------------------------------------------------
(* A hook in monitor mode whose collaborators may fail: the on_issue       *)
(* callback raises, the store refuses the write, the dashboard does not    *)
(* answer, the judge cannot be built, fails, or never answers.  The        *)
(* handlers run on the agent's thread; _on_session_end hands the           *)
(* evaluation to the norn-eval thread (interceptor.py lines 461-477).      *)

\* tool calls in one behaviour of SpecEval
MaxEvalCalls == 2

\* the collaborators of the hook
Environments ==
    [on_issue  : {"none", "returns", "raises"},
     store     : {"ok", "fails"},
     dashboard : {"none", "up", "down"},
     evaluator : {"ok", "raises"}]

\* the tool calls of the agent: a knowledge-base search, a shell command
EvalCalls(n) ==
    {[name |-> "kb_search", input |-> [q |-> JInt(n)]],
     [name |-> "run",       input |-> [shell |-> JBool(TRUE)]]}

\* how a call ends: whether the framework raised, and whether the full
\* result holds one of the _CONFIG_ERROR_PATTERNS (lines 677-693), as the
\* result 'No knowledge base ID provided' of a search does
EvalOutcomes == [raised : BOOLEAN, text : {"ok", "no knowledge base id"}]

\* evaluate_step_relevance, quality_evaluator.py lines 147-159: the judge's
\* scores, or None, None when the call failed
EvalStepJudgements ==
    StepJudgements \cup {[relevance |-> JNull, security |-> JNull, keyword |-> "none"]}

EvalInit ==
    /\ config \in [mode : {"monitor"}, enable_ai_eval : BOOLEAN,
                  enable_shadow_browser : BOOLEAN]
    /\ task \in BOOLEAN
    /\ HookNew
    /\ env \in Environments
    /\ worker = "none" /\ escaped = "none" /\ heuristic = NoFile
    /\ timedOut = FALSE /\ fullResults = <<>> /\ judgeCalls = <<>>

\* _on_session_start, lines 180-253, with _dashboard_on_session_start (lines
\* 850-886): the hook is registered when the dashboard answers
EvalSessionStart ==
    /\ hpc = "new"
    /\ _session_report' =
            [task |-> task, overall_quality |-> "PENDING", security_score |-> JNull,
             total_steps |-> 0, loop_detected |-> FALSE, security_breach_detected |-> FALSE]
    /\ streaming' = (env.dashboard = "up")
    /\ hpc' = "running"
    /\ UNCHANGED <<config, task, _step_counter, _steps, _issues, _loop_detected, analyzer,
                   inFlight, _steps_to_evaluate, judged, file, nextId, evalVars>>
    /\ UNCHANGED exceptEval

\* _on_before_tool, lines 529-568: on_issue is called with each issue of the
\* analyzer, outside any try (lines 543-546)
EvalBeforeTool ==
    /\ hpc = "running"
    /\ inFlight = <<>>
    /\ _step_counter < MaxEvalCalls
    /\ \E call \in EvalCalls(_step_counter + 1) :
        LET analysis == AnalyzeStep(analyzer, call.name, call.input, DEFAULT_LOOP_WINDOW,
                                    DEFAULT_LOOP_THRESHOLD, DEFAULT_MAX_SAME_TOOL)
            recorded == RecordIssues([issues |-> _issues, loop_detected |-> _loop_detected,
                                      breach |-> _session_report.security_breach_detected,
                                      cancel_tool |-> FALSE],
                                     analysis.issues, config.mode)
        IN  /\ analyzer' = analysis.state
            /\ IF env.on_issue = "raises" /\ analysis.issues /= <<>>
               THEN /\ _issues' = Append(_issues, Head(analysis.issues))
                    /\ escaped' = "BeforeToolCall"
                    /\ hpc' = "raised"
                    /\ UNCHANGED <<_loop_detected, _session_report, inFlight>>
               ELSE /\ _issues' = recorded.issues
                    /\ _loop_detected' = recorded.loop_detected
                    /\ _session_report' =
                        [_session_report EXCEPT !.security_breach_detected = recorded.breach]
                    /\ inFlight' = <<[name |-> call.name, input |-> call.input,
                                      cancel_tool |-> FALSE]>>
                    /\ UNCHANGED <<escaped, hpc>>
    /\ _step_counter' = _step_counter + 1
    /\ UNCHANGED <<config, task, _steps, _steps_to_evaluate, judged, file, nextId, streaming,
                   env, worker, heuristic, timedOut, fullResults, judgeCalls>>
    /\ UNCHANGED exceptEval

\* _on_after_tool, lines 570-617: the step, its POST to the dashboard (which
\* never raises, lines 827-832), its place in _steps_to_evaluate
EvalAfterTool ==
    /\ hpc = "running"
    /\ inFlight /= <<>>
    /\ \E outcome \in EvalOutcomes :
        LET call == inFlight[1]
            status == IF outcome.raised THEN "FAILED"
                      ELSE IF HasIssue(_issues, {"INFINITE_LOOP"}, 1) THEN "REDUNDANT"
                      ELSE "SUCCESS"
        IN  /\ _steps' = Append(_steps,
                    [step_id         |-> StepId(nextId),
                     step_number     |-> JInt(_step_counter),
                     tool_name       |-> JStr(call.name),
                     tool_input      |-> JMap(_mask_sensitive(call.input)),
                     status          |-> JStr(status),
                     relevance_score |-> JNull,
                     security_score  |-> JNull,
                     reasoning       |-> JStr("")])
            /\ fullResults' = [i \in DOMAIN fullResults \cup {Len(_steps) + 1} |->
                                  IF i = Len(_steps) + 1 THEN outcome.text ELSE fullResults[i]]
            /\ _steps_to_evaluate' =
                LET item(mode) == [step |-> Len(_steps) + 1,
                                   config_error |-> outcome.text = "no knowledge base id",
                                   mode |-> mode]
                IN  _steps_to_evaluate
                        \o If(config.enable_ai_eval /\ task, item("none"))
                        \o If(config.enable_shadow_browser, item("shadow"))
    /\ inFlight' = <<>>
    /\ nextId' = nextId + 1
    /\ UNCHANGED <<config, task, hpc, _step_counter, _issues, _loop_detected, analyzer,
                   _session_report, judged, file, streaming,
                   env, worker, escaped, heuristic, timedOut, judgeCalls>>
    /\ UNCHANGED exceptEval

\* _on_session_end, lines 407-477, up to result(timeout=120): the counts,
\* check_efficiency, the first _finalize_report (record_session absorbs the
\* store's failure, audit_logger.py lines 185-196; _dashboard_complete_session
\* reads report.swarm_id, line 943, which SessionReport does not have, and
\* _finalize_report is outside any try), then the submit to the executor
EvalSessionEnd ==
    /\ hpc = "running"
    /\ inFlight = <<>>
    /\ LET all_issues == _issues \o If(task /\ 2 * Len(_steps) > 3 * DEFAULT_MAX_STEPS,
                                       QualityIssue("INEFFICIENCY", 5))
           rep == Finalized([_session_report EXCEPT !.total_steps = Len(_steps),
                                                    !.loop_detected = _loop_detected],
                            all_issues, _loop_detected)
       IN  /\ _issues' = all_issues
           /\ _session_report' = rep
           /\ heuristic' = rep
           /\ file' = IF env.store = "ok" THEN Recorded(file, rep, _steps, all_issues) ELSE file
    /\ IF streaming
       THEN hpc' = "raised" /\ escaped' = "AfterInvocation" /\ UNCHANGED worker
       ELSE IF config.enable_ai_eval /\ task
       THEN hpc' = "evaluating" /\ worker' = "running" /\ UNCHANGED escaped
       ELSE hpc' = "done" /\ UNCHANGED <<worker, escaped>>
    /\ UNCHANGED <<config, task, _step_counter, _steps, _loop_detected, analyzer, inFlight,
                   _steps_to_evaluate, judged, nextId, streaming, env, timedOut, fullResults, judgeCalls>>
    /\ UNCHANGED exceptEval

\* the norn-eval thread: _await_pending_and_evaluate lines 486-499 with
\* _evaluate_step_relevance, lines 621-712, on the next queued step, once
\* the judge has answered; when _get_evaluator raises (line 627) the except
\* of line 711 ends the evaluation of the step
\* (line 491 is run for every queued item, whatever its mode; for an item of
\* mode "shadow" _verify_with_shadow_browser follows, which returns at once for
\* a tool that is not a browser tool, lines 984-985)
EvalStepRelevance ==
    /\ worker = "running"
    /\ _steps_to_evaluate /= <<>>
    /\ judgeCalls' = IF env.evaluator = "raises" THEN judgeCalls
                      ELSE Append(judgeCalls, Head(_steps_to_evaluate).step)
    /\ IF env.evaluator = "raises"
       THEN UNCHANGED <<_steps, _issues, _session_report>>
       ELSE \E j \in EvalStepJudgements :
        LET item == Head(_steps_to_evaluate)
            step == _steps[item.step]
            drift == j.relevance /= JNull /\ j.relevance.v < 30
            insecure == j.security /= JNull /\ j.security.v <= 50
            issue_type == CASE j.keyword = "exfiltration" -> "DATA_EXFILTRATION"
                            [] j.keyword = "injection"    -> "PROMPT_INJECTION"
                            [] j.keyword = "credential"   -> "CREDENTIAL_LEAK"
                            [] j.keyword = "ssl"          -> "SECURITY_BYPASS"
                            [] OTHER                      -> "SUSPICIOUS_BEHAVIOR"
            status == IF item.config_error THEN JStr("FAILED")
                      ELSE IF drift THEN JStr("IRRELEVANT") ELSE step.status
        IN  /\ _steps' = [_steps EXCEPT ![item.step] =
                    [step EXCEPT !.relevance_score = j.relevance,
                                 !.security_score = j.security,
                                 !.reasoning = JStr(j.keyword),
                                 !.status = status]]
            /\ _issues' = _issues
                    \o If(drift, QualityIssue("TASK_DRIFT", 6))
                    \o If(insecure, QualityIssue(issue_type, IF j.security.v < 20 THEN 10 ELSE 8))
                    \o If(item.config_error,
                          [issue_type |-> "MISSING_CONFIG", severity |-> 7,
                           affected_steps |-> {step.step_id}])
            /\ _session_report' = [_session_report EXCEPT !.security_breach_detected = @ \/ insecure]
    /\ _steps_to_evaluate' = Tail(_steps_to_evaluate)
    /\ UNCHANGED <<config, task, hpc, _step_counter, _loop_detected, analyzer, inFlight,
                   judged, file, nextId, streaming,
                   env, worker, escaped, heuristic, timedOut, fullResults>>
    /\ UNCHANGED exceptEval

\* the norn-eval thread: _run_ai_evaluation, lines 714-756, once the judge
\* has answered, with the _finalize_report of its finally; when
\* _get_evaluator raises (line 721) the except of lines 750-753 sets POOR
EvalRunAiEvaluation ==
    /\ worker = "running"
    /\ _steps_to_evaluate = <<>>
    /\ \E j \in IF env.evaluator = "raises"
                THEN {[did |-> "raised", overall_quality |-> "POOR", security_score |-> JNull]}
                ELSE SessionJudgements :
        LET rep == Finalized(
                    [_session_report EXCEPT
                        !.overall_quality = j.overall_quality,
                        !.security_score = IF j.security_score /= JNull THEN j.security_score ELSE @],
                    _issues, _loop_detected)
        IN  /\ (Len(_steps) = 0 /\ env.evaluator = "ok") =>
                j = [did |-> "returned", overall_quality |-> "GOOD", security_score |-> JInt(100)]
            /\ judged' = j
            /\ _session_report' = rep
            /\ file' = IF env.store = "ok" THEN Recorded(file, rep, _steps, _issues) ELSE file
    /\ worker' = "done"
    /\ UNCHANGED <<config, task, hpc, _step_counter, _steps, _issues, _loop_detected, analyzer,
                   inFlight, _steps_to_evaluate, nextId, streaming,
                   env, escaped, heuristic, timedOut, fullResults, judgeCalls>>
    /\ UNCHANGED exceptEval

\* line 475: 120 seconds have passed and the future is not done; result
\* raises TimeoutError inside the with block, whose exit is
\* shutdown(wait=True): the handler joins the norn-eval thread
EvalTimeout ==
    /\ hpc = "evaluating"
    /\ worker = "running"
    /\ hpc' = "joining"
    /\ timedOut' = TRUE
    /\ UNCHANGED <<config, task, _step_counter, _steps, _issues, _loop_detected, analyzer,
                   inFlight, _steps_to_evaluate, _session_report, judged, file, nextId,
                   streaming, env, worker, escaped, heuristic, fullResults, judgeCalls>>
    /\ UNCHANGED exceptEval

\* lines 474-477: the norn-eval thread has ended; result returns, or the
\* join of shutdown(wait=True) ends and the except of line 476 logs the
\* TimeoutError; _on_session_end returns
EvalReturn ==
    /\ hpc \in {"evaluating", "joining"}
    /\ worker = "done"
    /\ hpc' = "done"
    /\ UNCHANGED <<config, task, _step_counter, _steps, _issues, _loop_detected, analyzer,
                   inFlight, _steps_to_evaluate, _session_report, judged, file, nextId,
                   streaming, evalVars>>
    /\ UNCHANGED exceptEval

EvalNext ==
    \/ EvalSessionStart
    \/ OnMessageAdded
    \/ EvalBeforeTool
    \/ EvalAfterTool
    \/ EvalSessionEnd
    \/ EvalStepRelevance
    \/ EvalRunAiEvaluation
    \/ EvalTimeout
    \/ EvalReturn

InitEval ==
    StoreInit /\ AtomicIdle /\ RaceIdle /\ MaskIdle /\ EvalInit /\ GuardIdle /\ ResumeIdle /\ AuthIdle /\ NormIdle /\ RunIdle /\ RegIdle /\ OrderIdle /\ BroadcastIdle /\ ReadIdle /\ ExecIdle /\ AccessIdle

SpecEval == InitEval /\ [][EvalNext]_vars

\* the steps of the norn-eval thread that wait for no answer of the judge:
\* _get_evaluator raises, or evaluate_session has no step to judge
EvalWithoutJudge ==
    /\ env.evaluator = "raises" \/ (Len(_steps) = 0 /\ _steps_to_evaluate = <<>>)
    /\ EvalStepRelevance \/ EvalRunAiEvaluation

\* the threads run when they can: the timer of result(timeout=120) expires,
\* the handler returns once the norn-eval thread has ended, the norn-eval
\* thread goes on where it waits for nothing; nothing makes the judge answer
SpecEvalLive ==
    SpecEval /\ WF_vars(EvalTimeout) /\ WF_vars(EvalReturn) /\ WF_vars(EvalWithoutJudge)

\* C22: no lifecycle event handler lets an exception escape to the agent
\* framework, whichever of the store, the ingest endpoint, the judge and the
\* on_issue callback fails.
C22_NoExceptionEscapes == escaped = "none"

\* C23: when the session judge fails, or the evaluation hits its timeout,
\* the report keeps the security score the heuristics of SessionEnd gave it
\* (under the cap of the issues found since) and a warning issue is added to
\* the session's issues.
C23_JudgeFailureKeepsHeuristicsAndWarns ==
    [][(\/ worker = "running" /\ worker' = "done" /\ judged'.did \in {"failed", "raised"}
        \/ ~timedOut /\ timedOut')
       => /\ _session_report'.security_score =
                FinalSecurityScore(heuristic.security_score, _issues')
          /\ Len(_issues') > Len(_issues)]_vars

\* C24: the SessionEnd handler always returns control to the agent framework:
\* when the judge never answers, the evaluation is abandoned at the hard
\* timeout and the handler returns without waiting for the evaluation thread.
C24_SessionEndReturns == (hpc = "evaluating") ~> (hpc = "done")

(***************************************************************************)
(* Running a registered agent from the dashboard: run_agent creates the    *)
(* session file, _execute_agent_background reads it into its own dict,     *)
(* runs the agent on a norn-agent thread with a NornHook that writes to    *)
(* the same file, waits at most 300 s for it, and then writes its dict     *)
(* back as the whole file.  After a timeout the agent thread is left       *)
(* running (shutdown(wait=False)) and its hook still writes at the end.    *)
(***************************************************************************)
RunIssue(issue_type, severity) ==
    [issue_type |-> JStr(issue_type), severity |-> JInt(severity)]

InitialSession ==
    [agent_id        |-> JStr("a1"),
     task            |-> JStr("t"),
     status          |-> JStr("active"),
     total_steps     |-> JInt(0),
     steps           |-> JList(<<>>),
     issues          |-> JList(<<>>),
     overall_quality |-> JStr("PENDING"),
     security_score  |-> JNull]

HookReports ==
    {[rep    |-> [task |-> TRUE, total_steps |-> Len(steps), overall_quality |-> "PENDING",
                  security_score |-> sc, loop_detected |-> FALSE,
                  security_breach_detected |-> issues /= <<>>],
      steps  |-> steps,
      issues |-> issues] :
        steps \in ReportStepLists(MaxReportSteps),
        issues \in {<<>>, <<[issue_type |-> "SECURITY_BYPASS", severity |-> 9]>>},
        sc \in {JInt(100)}}

FileHasIssue(f, issue_type) ==
    \E i \in 1..Len(ListOr(Get(f, "issues"))) :
        ListOr(Get(f, "issues"))[i].issue_type = JStr(issue_type)

RunAgent ==
    /\ runner = "idle"
    /\ file = NoFile
    /\ file' = InitialSession
    /\ runner' = "started"
    /\ UNCHANGED <<runSession, agentThread, hookReport>>
    /\ UNCHANGED exceptRun

RunnerStart ==
    /\ runner = "started"
    /\ runSession' = file
    /\ agentThread' = "running"
    /\ runner' = "waiting"
    /\ UNCHANGED <<file, hookReport>>
    /\ UNCHANGED exceptRun

AgentSessionEnd ==
    /\ agentThread = "running"
    /\ \E h \in HookReports :
          /\ hookReport' = h
          /\ file' = Recorded(file, h.rep, h.steps, h.issues)
    /\ agentThread' = "finalized"
    /\ UNCHANGED <<runner, runSession>>
    /\ UNCHANGED exceptRun

AgentEvaluated ==
    /\ agentThread = "finalized"
    /\ \E j \in SessionJudgements :
          LET rep == [hookReport.rep EXCEPT !.overall_quality = j.overall_quality,
                                            !.security_score = j.security_score]
          IN  /\ hookReport' = [hookReport EXCEPT !.rep = rep]
              /\ file' = Recorded(file, rep, hookReport.steps, hookReport.issues)
    /\ agentThread' = "evaluated"
    /\ UNCHANGED <<runner, runSession>>
    /\ UNCHANGED exceptRun

AgentReturns ==
    /\ agentThread \in {"finalized", "evaluated"}
    /\ agentThread' = "returned"
    /\ UNCHANGED <<file, runner, runSession, hookReport>>
    /\ UNCHANGED exceptRun

AgentRaises ==
    /\ agentThread \in {"running", "finalized", "evaluated"}
    /\ agentThread' = "raised"
    /\ UNCHANGED <<file, runner, runSession, hookReport>>
    /\ UNCHANGED exceptRun

Terminated(session, issue) ==
    [session EXCEPT !["status"] = JStr("terminated"),
                    !["issues"] = JList(Append(ListOr(session["issues"]), issue))]

RunTimeout ==
    /\ runner = "waiting"
    /\ agentThread \in {"running", "finalized", "evaluated"}
    /\ runSession' = Put(Terminated(runSession, RunIssue("TIMEOUT", 8)), "ended_at", JStr("t3"))
    /\ file' = runSession'
    /\ runner' = "timedout"
    /\ UNCHANGED <<agentThread, hookReport>>
    /\ UNCHANGED exceptRun

RunCrashed ==
    /\ runner = "waiting"
    /\ agentThread = "raised"
    /\ runSession' = Put(Terminated(runSession, RunIssue("EXECUTION_ERROR", 9)), "ended_at", JStr("t3"))
    /\ file' = runSession'
    /\ runner' = "crashed"
    /\ UNCHANGED <<agentThread, hookReport>>
    /\ UNCHANGED exceptRun

RunCompleted ==
    /\ runner = "waiting"
    /\ agentThread = "returned"
    /\ LET rep == hookReport.rep
           issues == [i \in 1..Len(hookReport.issues) |->
                         RunIssue(hookReport.issues[i].issue_type, hookReport.issues[i].severity)]
           steps == [i \in 1..Len(hookReport.steps) |->
                         [hookReport.steps[i] EXCEPT !.tool_input = StrOf(@)]]
       IN  runSession' =
               [s \in DOMAIN runSession \cup {"ended_at", "loop_detected"} |->
                   CASE s = "ended_at"        -> JStr("t3")
                     [] s = "status"          -> JStr("completed")
                     [] s = "total_steps"     -> JInt(rep.total_steps)
                     [] s = "overall_quality" -> JStr(rep.overall_quality)
                     [] s = "security_score"  -> rep.security_score
                     [] s = "loop_detected"   -> JBool(rep.loop_detected)
                     [] s = "issues"          -> JList(ListOr(runSession["issues"]) \o issues)
                     [] s = "steps"           -> JList(ListOr(runSession["steps"]) \o steps)
                     [] OTHER                 -> runSession[s]]
    /\ file' = runSession'
    /\ runner' = "completed"
    /\ UNCHANGED <<agentThread, hookReport>>
    /\ UNCHANGED exceptRun

RunNext ==
    \/ RunAgent
    \/ RunnerStart
    \/ AgentSessionEnd
    \/ AgentEvaluated
    \/ AgentReturns
    \/ AgentRaises
    \/ RunTimeout
    \/ RunCrashed
    \/ RunCompleted

RunInit == StoreInit /\ RunIdle

InitRun ==
    RunInit /\ AtomicIdle /\ RaceIdle /\ MaskIdle /\ HookIdle /\ GuardIdle /\ ResumeIdle /\ BroadcastIdle /\ ReadIdle /\ ExecIdle /\ AccessIdle
            /\ AuthIdle /\ NormIdle /\ EvalIdle /\ RegIdle /\ OrderIdle

SpecRun == InitRun /\ [][RunNext]_vars

\* C25: once the run has timed out or crashed, the persisted session has status
\* "terminated" and carries the TIMEOUT (after a timeout) or EXECUTION_ERROR (after a
\* crash) issue, whatever is written to the session afterwards.
C25_TerminatedWithIssueStays ==
    /\ runner = "timedout" =>
          Get(file, "status") = JStr("terminated") /\ FileHasIssue(file, "TIMEOUT")
    /\ runner = "crashed" =>
          Get(file, "status") = JStr("terminated") /\ FileHasIssue(file, "EXECUTION_ERROR")

\* C26: when the session has ended, every step whose full tool result holds a
\* missing-config or auth-failure substring has status FAILED and a MISSING_CONFIG
\* issue of severity 7 names it, whether or not the tool raised and whatever the
\* per-step judge returned or failed to return.
C26_ConfigErrorFailsStep ==
    hpc = "done" =>
        \A i \in DOMAIN fullResults :
            fullResults[i] = "no knowledge base id" =>
                /\ _steps[i].status = JStr("FAILED")
                /\ \E k \in 1..Len(_issues) :
                      /\ _issues[k].issue_type = "MISSING_CONFIG"
                      /\ _issues[k].severity = 7
                      /\ _steps[i].step_id \in _issues[k].affected_steps

\* C27: for a session with zero tool-call steps (its only step, if any, is the
\* synthesized ai_reasoning step) the session judge is not called: the verdict of
\* the session evaluation is the fixed one, quality GOOD and security 100.
C27_PureReasoningSkipsJudge ==
    (/\ judged.did /= "nothing"
     /\ \A i \in 1..Len(_steps) : _steps[i].tool_name = JStr("ai_reasoning"))
    => judged = [did |-> "returned", overall_quality |-> "GOOD", security_score |-> JInt(100)]

RegisterThreads == {1, 2}

\* the `name` values of the request bodies, with what name.strip() and
\* name.lower().replace(' ', '_')[:20] make of them
RegisterNames == {"", " ", "a", " a ", "A", "b"}

Strip(name) ==
    CASE name \in {"", " "} -> ""
      [] name = " a "       -> "a"
      [] OTHER              -> name

IdSuffix(name) == IF name \in {"a", "A"} THEN "a" ELSE name

HookAgentInfo(name, now) ==
    [id     |-> [prefix |-> "hook", at |-> now, suffix |-> IdSuffix(name)],
     name   |-> name,
     source |-> "hook"]

HookAgents(agents, name) ==
    SelectSeq(agents, LAMBDA agent : agent.name = name /\ agent.source = "hook")

\* threading.Lock: acquired only when no thread holds it
MutLockFree(lock) == TRUE
LockFree(lock) == lock = 0

RegInit ==
    /\ registryFile \in {<<>>, <<[id |-> [prefix |-> "git", at |-> 0, suffix |-> "a"], name |-> "a", source |-> "git"]>>}
    /\ _registry_lock = 0
    /\ registerClock = 0
    /\ registering = [t \in RegisterThreads |-> [pc |-> "idle", name |-> "", agents |-> <<>>]]
    /\ registrations = <<>>
    /\ nRegisters = 0

\* lines 24-27: the request arrives; an empty name is answered 400
RegisterRequest(t) ==
    /\ registering[t].pc = "idle"
    /\ nRegisters < MaxRegisters
    /\ \E raw \in RegisterNames :
          registering' = [registering EXCEPT ![t] =
              IF Strip(raw) = "" THEN @
              ELSE [pc |-> "waiting", name |-> Strip(raw), agents |-> <<>>]]
    /\ nRegisters' = nRegisters + 1
    /\ UNCHANGED <<registryFile, _registry_lock, registerClock, registrations>>
    /\ UNCHANGED exceptReg

\* line 29: with _registry_lock
RegisterAcquire(t) ==
    /\ registering[t].pc = "waiting"
    /\ LockFree(_registry_lock)
    /\ _registry_lock' = t
    /\ registering' = [registering EXCEPT ![t].pc = "locked"]
    /\ UNCHANGED <<registryFile, registerClock, registrations, nRegisters>>
    /\ UNCHANGED exceptReg

\* lines 30-37: the registry file is loaded
RegisterRead(t) ==
    /\ registering[t].pc = "locked"
    /\ registering' = [registering EXCEPT ![t].pc = "read", ![t].agents = registryFile]
    /\ UNCHANGED <<registryFile, _registry_lock, registerClock, registrations, nRegisters>>
    /\ UNCHANGED exceptReg

\* lines 39-69: the existing hook entry of that name is returned, or a new one is
\* appended and the list written; either way the lock is released
RegisterFinish(t) ==
    /\ registering[t].pc = "read"
    /\ LET r == registering[t]
           found == HookAgents(r.agents, r.name)
           agent_info == HookAgentInfo(r.name, registerClock)
       IN  IF found /= <<>>
           THEN /\ registrations' = Append(registrations, Head(found))
                /\ UNCHANGED registryFile
           ELSE /\ registryFile' = Append(r.agents, agent_info)
                /\ registrations' = Append(registrations, agent_info)
    /\ _registry_lock' = 0
    /\ registering' = [registering EXCEPT ![t] = [pc |-> "idle", name |-> "", agents |-> <<>>]]
    /\ UNCHANGED <<registerClock, nRegisters>>
    /\ UNCHANGED exceptReg

\* a second passes
RegisterTick ==
    /\ registerClock < MaxRegisterSeconds
    /\ registerClock' = registerClock + 1
    /\ UNCHANGED <<registryFile, _registry_lock, registering, registrations, nRegisters>>
    /\ UNCHANGED exceptReg

RegNext ==
    \/ \E t \in RegisterThreads : RegisterRequest(t)
    \/ \E t \in RegisterThreads : RegisterAcquire(t)
    \/ \E t \in RegisterThreads : RegisterRead(t)
    \/ \E t \in RegisterThreads : RegisterFinish(t)
    \/ RegisterTick

InitReg ==
    StoreInit /\ AtomicIdle /\ RaceIdle /\ MaskIdle /\ HookIdle /\ GuardIdle /\ ResumeIdle /\ OrderIdle /\ BroadcastIdle /\ ReadIdle /\ ExecIdle /\ AccessIdle
              /\ AuthIdle /\ NormIdle /\ EvalIdle /\ RunIdle /\ RegInit /\ OrderIdle

SpecReg == InitReg /\ [][RegNext]_vars

\* C29: whatever the sequence and interleaving of register requests, the registry
\* holds at most one entry with source "hook" per name, and every request for a
\* name has returned that entry: the same one, with the same id, each time.
C29_OneHookEntryPerName ==
    /\ \A i \in 1..Len(registryFile) : \A j \in 1..Len(registryFile) :
          (/\ i /= j
           /\ registryFile[i].source = "hook"
           /\ registryFile[j].source = "hook") => registryFile[i].name /= registryFile[j].name
    /\ \A k \in 1..Len(registrations) :
          /\ \E i \in 1..Len(registryFile) : registryFile[i] = registrations[k]
          /\ \A l \in 1..Len(registrations) :
                registrations[l].name = registrations[k].name => registrations[l] = registrations[k]

\* two requests for one name have returned, the second in a later second than
\* the entry was made, beside an imported agent of that name
C29_Witness ==
    /\ \A t \in RegisterThreads : registering[t].pc = "idle"
    /\ Len(registrations) >= 2
    /\ registrations[1].name = "a" /\ registrations[2].name = "a"
    /\ registrations[1].id.at < registerClock
    /\ Len(registryFile) = 2

(***************************************************************************)
(* SpecOrder: one invocation of a hook whose steps go to the session file  *)
(* two ways.  Each step is posted to the dashboard as it is produced       *)
(* (_dashboard_send_step; a request that fails or is not answered within   *)
(* 0.5 s is dropped, _post_to_dashboard never raises), and the reports of  *)
(* the session end are merged into the same file by write_session (the     *)
(* hook's audit directory and the dashboard's are both                     *)
(* $NORN_LOG_DIR/sessions, default norn_logs/sessions).                    *)
(***************************************************************************)
OrderRep(quality) ==
    [task |-> TRUE, total_steps |-> Len(produced), overall_quality |-> quality,
     security_score |-> JInt(100), loop_detected |-> FALSE, security_breach_detected |-> FALSE]

\* _on_session_start, lines 180-253, with _dashboard_on_session_start, lines
\* 851-886, and ingest_session
OrderSessionStart ==
    /\ opc = "new"
    /\ \E registered \in BOOLEAN : \E answered \in BOOLEAN :
          /\ streaming' = registered
          /\ file' = IF registered /\ answered THEN IngestSession(file, IngestPayload) ELSE file
    /\ opc' = "running"
    /\ UNCHANGED <<nextId, produced, broadcasts>>
    /\ UNCHANGED exceptOrder

\* _on_after_tool, lines 570-617, with _dashboard_send_step and, when the
\* request arrives, add_session_step and its broadcast
OrderAfterTool ==
    /\ opc = "running"
    /\ Len(produced) < MaxOrderSteps
    /\ \E answered \in BOOLEAN : \E input \in StreamedInputs :
          IF streaming /\ answered /\ file /= NoFile
          THEN /\ file' = AddSessionStep(file, StreamedStep(nextId, input))
               /\ broadcasts' = Append(broadcasts, nextId)
          ELSE UNCHANGED <<file, broadcasts>>
    /\ produced' = Append(produced, nextId)
    /\ nextId' = nextId + 1
    /\ UNCHANGED <<opc, streaming>>
    /\ UNCHANGED exceptOrder

\* _on_session_end, lines 407-477: the first _finalize_report writes the report
\* with the steps not yet scored; when the hook streams,
\* _dashboard_complete_session then reads report.swarm_id (line 943), which
\* SessionReport does not have, and the handler ends there
OrderSessionEnd ==
    /\ opc = "running"
    /\ file' = Recorded(file, OrderRep("PENDING"),
                        [i \in 1..Len(produced) |-> ReportStep(produced[i], "unevaluated")], <<>>)
    /\ opc' = IF streaming THEN "raised" ELSE "evaluating"
    /\ UNCHANGED <<nextId, streaming, produced, broadcasts>>
    /\ UNCHANGED exceptOrder

\* _run_ai_evaluation, lines 714-756: the second _finalize_report writes the
\* report again, its steps now scored
OrderBackfill ==
    /\ opc = "evaluating"
    /\ \E kinds \in [1..Len(produced) -> {"evaluated", "irrelevant"}] :
          file' = Recorded(file, OrderRep("GOOD"),
                           [i \in 1..Len(produced) |-> ReportStep(produced[i], kinds[i])], <<>>)
    /\ opc' = "done"
    /\ UNCHANGED <<nextId, streaming, produced, broadcasts>>
    /\ UNCHANGED exceptOrder

OrderNext ==
    \/ OrderSessionStart
    \/ OrderAfterTool
    \/ OrderSessionEnd
    \/ OrderBackfill

InitOrder ==
    StoreInit /\ AtomicIdle /\ RaceIdle /\ MaskIdle /\ HookIdle /\ GuardIdle /\ ResumeIdle /\ BroadcastIdle /\ ReadIdle /\ ExecIdle /\ AccessIdle
              /\ AuthIdle /\ NormIdle /\ EvalIdle /\ RunIdle /\ RegIdle /\ OrderIdle

SpecOrder == InitOrder /\ [][OrderNext]_vars

\* the numbers of a list of steps, and whether a list of numbers is in the order
\* of production
StepNumbers(steps) == [i \in 1..Len(steps) |-> steps[i]["step_number"].v]

Position(n) == CHOOSE k \in 1..Len(produced) : produced[k] = n

InProductionOrder(numbers) ==
    \A i \in 1..Len(numbers) : \A j \in 1..Len(numbers) :
        i < j => Position(numbers[i]) < Position(numbers[j])

\* C30: the steps of the persisted session, and the steps sent to the subscribers,
\* are in the order in which the pipeline produced them, also after a report that
\* back-fills scores has been merged.
C30_StepsInProductionOrder ==
    /\ file /= NoFile => InProductionOrder(StepNumbers(ListOrSteps(file)))
    /\ InProductionOrder(broadcasts)

(***************************************************************************)
(* SpecBroadcast: ConnectionManager.broadcast on the server's event loop.  *)
(* The for loop iterates over the set active_connections itself and awaits *)
(* send_json for each connection; while a send is awaited the event loop   *)
(* runs other handlers: websocket_sessions accepting a client (connect) or *)
(* seeing its client gone (disconnect).  A set iterator raises             *)
(* RuntimeError ("Set changed size during iteration") when the size of the *)
(* set differs from the size at its creation; after changes that leave the *)
(* size as it was, whether it yields a connection added meanwhile depends  *)
(* on where the hash table put it.                                         *)
(***************************************************************************)
\* the test of the set iterator's next
SetChangedSize(used, connections) == used /= Cardinality(connections)

\* manager.connect, shared.py lines 76-78, called by websocket_sessions, line 60
BroadcastConnect ==
    /\ bpc \in {"idle", "sending"}
    /\ nConnects < MaxConnects
    /\ active_connections' = active_connections \cup {nConnects + 1}
    /\ nConnects' = nConnects + 1
    /\ \E yielded \in BOOLEAN :
          pending' = IF bpc = "sending" /\ yielded THEN pending \cup {nConnects + 1} ELSE pending
    /\ UNCHANGED <<bpc, si_used, sending, disconnected, sendOk, leftMeanwhile>>
    /\ UNCHANGED exceptBc

\* manager.disconnect, shared.py lines 80-81, called by websocket_sessions, lines
\* 88-92, when the client has gone
BroadcastDisconnect ==
    /\ bpc \in {"idle", "sending"}
    /\ \E c \in active_connections :
          /\ active_connections' = active_connections \ {c}
          /\ pending' = pending \ {c}
          /\ leftMeanwhile' = IF bpc = "sending" THEN leftMeanwhile \cup {c} ELSE leftMeanwhile
    /\ UNCHANGED <<bpc, si_used, sending, disconnected, sendOk, nConnects>>
    /\ UNCHANGED exceptBc

\* lines 83-86: disconnected = set(); the for loop makes the iterator
BroadcastStart ==
    /\ bpc = "idle"
    /\ bpc' = "next"
    /\ si_used' = Cardinality(active_connections)
    /\ pending' = active_connections
    /\ disconnected' = {}
    /\ UNCHANGED <<active_connections, sending, sendOk, leftMeanwhile, nConnects>>
    /\ UNCHANGED exceptBc

\* line 86: the iterator's next; at its end, line 91
BroadcastNextConnection ==
    /\ bpc = "next"
    /\ IF SetChangedSize(si_used, active_connections)
       THEN /\ bpc' = "raised"
            /\ UNCHANGED <<active_connections, pending, sending>>
       ELSE IF pending = {}
       THEN /\ bpc' = "done"
            /\ active_connections' = active_connections \ disconnected
            /\ UNCHANGED <<pending, sending>>
       ELSE \E c \in pending :
            /\ bpc' = "sending"
            /\ sending' = c
            /\ pending' = pending \ {c}
            /\ UNCHANGED active_connections
    /\ UNCHANGED <<si_used, disconnected, sendOk, leftMeanwhile, nConnects>>
    /\ UNCHANGED exceptBc

\* lines 87-90: the awaited send_json returns or raises
BroadcastSent ==
    /\ bpc = "sending"
    /\ \E failed \in BOOLEAN :
          /\ disconnected' = IF failed THEN disconnected \cup {sending} ELSE disconnected
          /\ sendOk' = IF failed THEN sendOk ELSE sendOk \cup {sending}
    /\ bpc' = "next"
    /\ sending' = 0
    /\ UNCHANGED <<active_connections, si_used, pending, leftMeanwhile, nConnects>>
    /\ UNCHANGED exceptBc

BroadcastNext ==
    \/ BroadcastConnect
    \/ BroadcastDisconnect
    \/ BroadcastStart
    \/ BroadcastNextConnection
    \/ BroadcastSent

InitBroadcast ==
    StoreInit /\ AtomicIdle /\ RaceIdle /\ MaskIdle /\ HookIdle /\ GuardIdle /\ ResumeIdle /\ ReadIdle /\ ExecIdle /\ AccessIdle
              /\ AuthIdle /\ NormIdle /\ EvalIdle /\ RunIdle /\ RegIdle /\ OrderIdle
              /\ BroadcastIdle

SpecBroadcast == InitBroadcast /\ [][BroadcastNext]_vars

\* C31: a broadcast never raises, and when it has finished every connection whose
\* send failed is out of the live set and every connection whose send succeeded
\* (and whose client has not gone meanwhile) is in it, whatever connects and
\* disconnects happened while it was in progress.
C31_BroadcastPrunesAndNeverRaises ==
    /\ bpc /= "raised"
    /\ bpc = "done" =>
          /\ disconnected \cap active_connections = {}
          /\ (sendOk \ (leftMeanwhile \cup disconnected)) \subseteq active_connections

(***************************************************************************)
(* SpecRead: get_session beside ingest, step, complete and delete_session  *)
(* requests for the same session_id.  The handlers are plain functions run *)
(* on the server's thread pool, so another request can run between the     *)
(* reader's exists() and its open().                                       *)
(***************************************************************************)
\* get_session, lines 174-177: the existence check
ReadExists ==
    /\ gpc = "idle"
    /\ nReads < MaxReads
    /\ IF file = NoFile
       THEN /\ answer' = [code |-> 404, missing |-> FALSE]
            /\ nReads' = nReads + 1
            /\ UNCHANGED gpc
       ELSE /\ gpc' = "exists"
            /\ UNCHANGED <<answer, nReads>>
    /\ UNCHANGED exceptRead

\* get_session, lines 179-184: open, load and normalize; any exception, the
\* FileNotFoundError of open included, is answered 500
ReadOpen ==
    /\ gpc = "exists"
    /\ answer' = IF file = NoFile THEN [code |-> 500, missing |-> TRUE]
                 ELSE [code |-> 200, missing |-> FALSE]
    /\ gpc' = "idle"
    /\ nReads' = nReads + 1
    /\ UNCHANGED exceptRead

\* delete_session, lines 320-330
ReadDeleteSession ==
    /\ nOps < MaxOps
    /\ file /= NoFile
    /\ file' = NoFile
    /\ prevFile' = file
    /\ lastOp' = [op |-> "delete_session", arg |-> JNull]
    /\ nOps' = nOps + 1
    /\ UNCHANGED nextId
    /\ UNCHANGED exceptStore

ReadNext ==
    \/ ReadExists
    \/ ReadOpen
    \/ ReadDeleteSession
    \/ StoreIngest
    \/ StoreAddStep
    \/ StoreComplete

InitRead ==
    StoreInit /\ AtomicIdle /\ RaceIdle /\ MaskIdle /\ HookIdle /\ GuardIdle /\ ResumeIdle /\ ExecIdle /\ AccessIdle
              /\ AuthIdle /\ NormIdle /\ EvalIdle /\ RunIdle /\ RegIdle /\ OrderIdle
              /\ BroadcastIdle /\ ReadIdle

SpecRead == InitRead /\ [][ReadNext]_vars

\* C32: a read of a session that was deleted between the reader's existence check
\* and its open is answered 404, not-found (and no request that changes or deletes
\* the session waits for a reader or fails because of one).
C32_DeletedDuringReadIsNotFound ==
    answer.missing => answer.code = 404

\* C33: in monitor mode no tool call is cancelled at BeforeToolCallEvent, whatever
\* issues the analyzer found at the call and however many steps were taken.
C33_MonitorNeverCancels ==
    config.mode = "monitor" =>
        /\ \A i \in 1..Len(trace) : ~trace[i].cancel_tool
        /\ \A i \in 1..Len(inFlight) : ~inFlight[i].cancel_tool

\* in monitor mode a shell command past max_steps, with a SECURITY_BYPASS issue of
\* its own and after a loop was detected, has run
C33_Witness ==
    /\ config.mode = "monitor"
    /\ Len(trace) > params.max_steps
    /\ trace[Len(trace)].name = "run"
    /\ Emitted(Len(trace), "SECURITY_BYPASS", 7)
    /\ _loop_detected
    /\ ~trace[Len(trace)].cancel_tool
    /\ trace[Len(trace)].outcome = "ok"

\* the number of per-step judge calls made for the step at index i of _steps
JudgeCallsFor(i) == Cardinality({k \in 1..Len(judgeCalls) : judgeCalls[k] = i})

\* C34: the evaluation queue is drained once, and no step recorded at AfterTool is
\* evaluated by the per-step judge more than once in a session, also when
\* shadow-browser verification is enabled; so no step gets its judge-derived
\* issues twice.
C34_StepJudgedOnce ==
    \A i \in 1..Len(_steps) : JudgeCallsFor(i) <= 1

(***************************************************************************)
(* The exit paths of an agent run.  run_agent creates the session, flips   *)
(* the agent to "running" and starts a thread on _execute_agent_background; *)
(* that thread installs the dependencies, puts the agent's directories on  *)
(* sys.path, imports the module, and runs the agent in-process (under a    *)
(* per-session working directory) or, when the module holds no agent       *)
(* instance, as a subprocess.  Several runs, also of one agent, may be in  *)
(* progress together: they share the registry entry, the working directory *)
(* and sys.path of the process.  What the hook of an in-process run writes *)
(* to the session file is the subject of SpecRun.                          *)
(***************************************************************************)
Executions == {1, 2}

\* LOGS_DIR / "workspace" / session_id
Workspace(e) == IF e = 1 THEN "workspace1" ELSE "workspace2"

InSeq(x, seq) == \E i \in 1..Len(seq) : seq[i] = x

\* list.remove(x): the first occurrence goes; ValueError (passed over) when absent
RemoveFirst(seq, x) ==
    IF ~InSeq(x, seq) THEN seq
    ELSE LET k == CHOOSE i \in 1..Len(seq) : seq[i] = x /\ \A j \in 1..(i - 1) : seq[j] /= x
         IN  SubSeq(seq, 1, k - 1) \o SubSeq(seq, k + 1, Len(seq))

RECURSIVE RemoveAll(_, _)
RemoveAll(seq, ps) ==
    IF ps = <<>> THEN seq ELSE RemoveAll(RemoveFirst(seq, Head(ps)), Tail(ps))

\* _add_to_sys_path for each of ps in turn: [path, added]
RECURSIVE AddToSysPath(_, _, _)
AddToSysPath(path, added, ps) ==
    IF ps = <<>> THEN [path |-> path, added |-> added]
    ELSE IF InSeq(Head(ps), path)
         THEN AddToSysPath(path, added, Tail(ps))
         ELSE AddToSysPath(<<Head(ps)>> \o path, Append(added, Head(ps)), Tail(ps))

\* the directories a run puts on sys.path: package_root and agent_path for a
\* package, agent_path alone for a single file
AgentPaths(is_package) == IF is_package THEN <<"repo", "agent">> ELSE <<"agent">>

Ended(x, status, issue) ==
    [x EXCEPT !.status = status,
              !.issues = IF issue = "none" THEN @ ELSE Append(@, issue)]

ExecInit ==
    /\ agentStatus = "analyzed"
    /\ executions = [e \in Executions |->
           [pc |-> "idle", status |-> "none", issues |-> <<>>, _original_cwd |-> "none",
            _added_sys_paths |-> <<>>, then |-> "none"]]
    /\ cwd = "home"
    /\ _chdir_lock = 0
    /\ sys_path = <<"site-packages">>

\* run_agent: the session is created "active", the agent is flipped to "running"
\* under the registry lock, and the thread is started
ExecRunAgent(e) ==
    /\ executions[e].pc = "idle"
    /\ executions' = [executions EXCEPT ![e].pc = "started", ![e].status = "active"]
    /\ agentStatus' = "running"
    /\ UNCHANGED <<cwd, _chdir_lock, sys_path>>
    /\ UNCHANGED exceptExec

\* lines 139-205: the session file is read, the hook built, pip run (120 s at most)
ExecInstall(e) ==
    /\ executions[e].pc = "started"
    /\ \E pip \in {"done", "TimeoutExpired", "Exception"} :
          executions' = [executions EXCEPT ![e].pc =
              CASE pip = "done"           -> "installed"
                [] pip = "TimeoutExpired" -> "timeout_expired"
                [] OTHER                  -> "fatal"]
    /\ UNCHANGED <<agentStatus, cwd, _chdir_lock, sys_path>>
    /\ UNCHANGED exceptExec

\* lines 208-232, 244-245: stdin is redirected and the directories of the agent are
\* put at the head of sys.path
ExecAddPaths(e) ==
    /\ executions[e].pc = "installed"
    /\ \E is_package \in BOOLEAN :
          LET a == AddToSysPath(sys_path, <<>>, AgentPaths(is_package))
          IN  /\ sys_path' = a.path
              /\ executions' = [executions EXCEPT ![e].pc = "importing",
                                                  ![e]._added_sys_paths = a.added]
    /\ UNCHANGED <<agentStatus, cwd, _chdir_lock>>
    /\ UNCHANGED exceptExec

\* lines 233-318: the module is imported and searched for an agent instance; the
\* module's top-level code and its factory functions run here, on the runner thread
ExecImport(e) ==
    /\ executions[e].pc = "importing"
    /\ \E module \in {"agent", "no agent", "Exception", "SystemExit"} :
          executions' = [executions EXCEPT ![e].pc =
              CASE module = "agent"     -> "found"
                [] module = "no agent"  -> "fallback"
                [] module = "Exception" -> "fatal"
                [] OTHER                -> "dead"]
    /\ UNCHANGED <<agentStatus, cwd, _chdir_lock, sys_path>>
    /\ UNCHANGED exceptExec

\* lines 321-366: no agent instance, so the file is run as a subprocess (300 s)
ExecSubprocess(e) ==
    /\ executions[e].pc = "fallback"
    /\ \E returncode \in {"0", "1", "TimeoutExpired"} :
          executions' = [executions EXCEPT ![e] =
              CASE returncode = "0" -> [Ended(@, "completed", "none") EXCEPT !.pc = "saving"]
                [] returncode = "1" -> [Ended(@, "terminated", "EXECUTION_ERROR") EXCEPT !.pc = "saving"]
                [] OTHER            -> [@ EXCEPT !.pc = "timeout_expired"]]
    /\ UNCHANGED <<agentStatus, cwd, _chdir_lock, sys_path>>
    /\ UNCHANGED exceptExec

\* line 376: with _chdir_lock
ExecChdirAcquire(e) ==
    /\ executions[e].pc = "found"
    /\ _chdir_lock = 0
    /\ _chdir_lock' = e
    /\ executions' = [executions EXCEPT ![e].pc = "chdir"]
    /\ UNCHANGED <<agentStatus, cwd, sys_path>>
    /\ UNCHANGED exceptExec

\* lines 377-378: the working directory is noted and changed, the lock released
ExecChdir(e) ==
    /\ executions[e].pc = "chdir"
    /\ executions' = [executions EXCEPT ![e].pc = "running", ![e]._original_cwd = cwd]
    /\ cwd' = Workspace(e)
    /\ _chdir_lock' = 0
    /\ UNCHANGED <<agentStatus, sys_path>>
    /\ UNCHANGED exceptExec

\* lines 380-474: the agent is called on its own thread and waited for 300 s.  On
\* the timeout the session is written and the status reset before the return
\* (lines 408-410); `then` is where the run goes after the finally clause
ExecAgent(e) ==
    /\ executions[e].pc = "running"
    /\ \E result \in {"returns", "Exception", "TimeoutError", "SystemExit"} :
          /\ executions' = [executions EXCEPT ![e] =
                CASE result = "returns" ->
                       [Ended(@, "completed", "none") EXCEPT !.pc = "finally", !.then = "saving"]
                  [] result = "Exception" ->
                       [Ended(@, "terminated", "EXECUTION_ERROR") EXCEPT !.pc = "finally", !.then = "saving"]
                  [] result = "TimeoutError" ->
                       [Ended(@, "terminated", "TIMEOUT") EXCEPT !.pc = "finally", !.then = "exited"]
                  [] OTHER ->
                       [@ EXCEPT !.pc = "finally", !.then = "dead"]]
          /\ agentStatus' = IF result = "TimeoutError" THEN "analyzed" ELSE agentStatus
    /\ UNCHANGED <<cwd, _chdir_lock, sys_path>>
    /\ UNCHANGED exceptExec

\* line 477: with _chdir_lock, in the finally clause
ExecRestoreAcquire(e) ==
    /\ executions[e].pc = "finally"
    /\ _chdir_lock = 0
    /\ _chdir_lock' = e
    /\ executions' = [executions EXCEPT ![e].pc = "restoring"]
    /\ UNCHANGED <<agentStatus, cwd, sys_path>>
    /\ UNCHANGED exceptExec

\* lines 478-484: back to _original_cwd, the lock released, and the entries of
\* _added_sys_paths taken off sys.path
ExecRestore(e) ==
    /\ executions[e].pc = "restoring"
    /\ cwd' = executions[e]._original_cwd
    /\ _chdir_lock' = 0
    /\ sys_path' = RemoveAll(sys_path, executions[e]._added_sys_paths)
    /\ executions' = [executions EXCEPT ![e].pc = executions[e].then]
    /\ UNCHANGED agentStatus
    /\ UNCHANGED exceptExec

\* lines 486-489: the session is saved and the status reset
ExecSave(e) ==
    /\ executions[e].pc = "saving"
    /\ executions' = [executions EXCEPT ![e].pc = "exited"]
    /\ agentStatus' = "analyzed"
    /\ UNCHANGED <<cwd, _chdir_lock, sys_path>>
    /\ UNCHANGED exceptExec

\* lines 491-513: except subprocess.TimeoutExpired
ExecTimeoutExpired(e) ==
    /\ executions[e].pc = "timeout_expired"
    /\ executions' = [executions EXCEPT ![e] = [Ended(@, "terminated", "TIMEOUT") EXCEPT !.pc = "exited"]]
    /\ agentStatus' = "analyzed"
    /\ UNCHANGED <<cwd, _chdir_lock, sys_path>>
    /\ UNCHANGED exceptExec

\* lines 515-543: except Exception
ExecFatal(e) ==
    /\ executions[e].pc = "fatal"
    /\ executions' = [executions EXCEPT ![e] = [Ended(@, "terminated", "EXECUTION_ERROR") EXCEPT !.pc = "exited"]]
    /\ agentStatus' = "analyzed"
    /\ UNCHANGED <<cwd, _chdir_lock, sys_path>>
    /\ UNCHANGED exceptExec

ExecRunner(e) ==
    \/ ExecInstall(e)
    \/ ExecAddPaths(e)
    \/ ExecImport(e)
    \/ ExecSubprocess(e)
    \/ ExecChdirAcquire(e)
    \/ ExecChdir(e)
    \/ ExecAgent(e)
    \/ ExecRestoreAcquire(e)
    \/ ExecRestore(e)
    \/ ExecSave(e)
    \/ ExecTimeoutExpired(e)
    \/ ExecFatal(e)

ExecNext ==
    \/ \E e \in Executions : ExecRunAgent(e)
    \/ \E e \in Executions : ExecInstall(e)
    \/ \E e \in Executions : ExecAddPaths(e)
    \/ \E e \in Executions : ExecImport(e)
    \/ \E e \in Executions : ExecSubprocess(e)
    \/ \E e \in Executions : ExecChdirAcquire(e)
    \/ \E e \in Executions : ExecChdir(e)
    \/ \E e \in Executions : ExecAgent(e)
    \/ \E e \in Executions : ExecRestoreAcquire(e)
    \/ \E e \in Executions : ExecRestore(e)
    \/ \E e \in Executions : ExecSave(e)
    \/ \E e \in Executions : ExecTimeoutExpired(e)
    \/ \E e \in Executions : ExecFatal(e)

InitExec ==
    StoreInit /\ AtomicIdle /\ RaceIdle /\ MaskIdle /\ HookIdle /\ GuardIdle /\ ResumeIdle /\ OrderIdle /\ BroadcastIdle /\ ReadIdle /\ AccessIdle
              /\ AuthIdle /\ NormIdle /\ EvalIdle /\ RunIdle /\ RegIdle /\ ExecInit

SpecExec == InitExec /\ [][ExecNext]_vars

\* every step of a started run is taken in the end: the threads are scheduled, and
\* pip, the subprocess and the wait for the agent have their timeouts
FairSpecExec ==
    SpecExec /\ \A e \in Executions : WF_vars(ExecRunner(e))

ExecOver(e) == executions[e].pc \in {"idle", "exited", "dead"}

\* C35: every started run ends with its session "completed" or "terminated", a
\* terminated one with an EXECUTION_ERROR or TIMEOUT issue, and, once no run is
\* left, with the agent back in status "analyzed".
C35_RunEndsSessionAndStatus ==
    /\ \A e \in Executions :
          (executions[e].pc = "started") ~>
              (/\ executions[e].pc = "exited"
               /\ executions[e].status \in {"completed", "terminated"}
               /\ executions[e].status = "terminated" =>
                     \/ InSeq("EXECUTION_ERROR", executions[e].issues)
                     \/ InSeq("TIMEOUT", executions[e].issues))
    /\ (\E e \in Executions : executions[e].pc = "started") ~>
          ((\A e \in Executions : ExecOver(e)) /\ agentStatus = "analyzed")

\* C36: the working directory is changed only by a run that holds the chdir lock,
\* and once every run has left (by return, exception or timeout) the working
\* directory of the process is the one it was before the first run started.
C36_ChdirSerializedAndRestored ==
    /\ \A e \in Executions : executions[e].pc \in {"chdir", "restoring"} => _chdir_lock = e
    /\ (\A e \in Executions : executions[e].pc \in {"idle", "exited"}) => cwd = "home"

\* C38: once a run has left, on whichever path, every directory it put on
\* sys.path is off it again: with no run left, sys.path is what it was before.
C38_SysPathRestored ==
    (\A e \in Executions : executions[e].pc \in {"idle", "exited"}) => sys_path = <<"site-packages">>

\* a run is in progress from the flip of run_agent to the status reset of its
\* runner thread
ExecInProgress(e) ==
    /\ executions[e].pc \notin {"idle", "exited", "dead"}
    /\ ~(executions[e].pc \in {"finally", "restoring"} /\ executions[e].then = "exited")

\* C40: the agent's registry status is "running" while an execution of the agent
\* is in progress, and "analyzed" once every execution has been through its
\* status reset, also when two runs of the agent overlap.
C40_RunningWhileInProgress ==
    /\ (\E e \in Executions : ExecInProgress(e)) => agentStatus = "running"
    /\ (/\ \A e \in Executions : ~ExecInProgress(e) /\ executions[e].pc /= "dead"
        /\ \E e \in Executions : executions[e].pc /= "idle") => agentStatus = "analyzed"

(***************************************************************************)
(* The registry file under its lock.  The hook registration, the imports,  *)
(* the status flip of run_agent, the status reset of the runner and        *)
(* delete_agent load the list, change it and write it back inside one      *)
(* `with _registry_lock`; _read_registry loads it under the lock;          *)
(* get_config opens the file without the lock.                             *)
(***************************************************************************)
MaxAccesses == 3

AccessThreads == {1, 2}

RegistryIds == {"a", "h"}

\* the accesses that write: what each makes of the list it has loaded
Mutations == {"register", "import", "run", "reset", "delete"}

HasId(agents, id) == \E i \in 1..Len(agents) : agents[i].id = id

\* for a in agents: if a["id"] == agent_id: a["status"] = status; break
WithStatus(agents, id, status) ==
    [i \in 1..Len(agents) |->
        IF agents[i].id = id /\ \A j \in 1..(i - 1) : agents[j].id /= id
        THEN [agents[i] EXCEPT !.status = status] ELSE agents[i]]

Mutated(agents, op, id) ==
    CASE op \in {"register", "import"} ->
             IF HasId(agents, id) THEN agents ELSE Append(agents, [id |-> id, status |-> "analyzed"])
      [] op = "run"    -> WithStatus(agents, id, "running")
      [] op = "reset"  -> WithStatus(agents, id, "analyzed")
      [] op = "delete" -> SelectSeq(agents, LAMBDA a : a.id /= id)
      [] OTHER         -> agents

RegistryInit ==
    /\ registryFile \in {<<>>, <<[id |-> "a", status |-> "analyzed"]>>}
    /\ expectedRegistry = registryFile
    /\ _registry_lock = 0
    /\ registerClock = 0
    /\ registering = [t \in RegisterThreads |-> [pc |-> "idle", name |-> "", agents |-> <<>>]]
    /\ registrations = <<>>
    /\ nRegisters = 0
    /\ accessing = [t \in AccessThreads |-> [pc |-> "idle", op |-> "none", id |-> "none", agents |-> <<>>]]
    /\ nAccesses = 0

\* a request or a runner thread reaches its access to the registry
AccessBegin(t) ==
    /\ accessing[t].pc = "idle"
    /\ nAccesses < MaxAccesses
    /\ \E op \in Mutations \cup {"read"}, id \in RegistryIds :
          /\ op = "register" => id = "h"
          /\ op = "import" => id = "a"
          /\ accessing' = [accessing EXCEPT ![t] = [pc |-> "waiting", op |-> op, id |-> id, agents |-> <<>>]]
    /\ nAccesses' = nAccesses + 1
    /\ UNCHANGED <<registryFile, _registry_lock, expectedRegistry>>
    /\ UNCHANGED exceptAccess

\* with _registry_lock
AccessAcquire(t) ==
    /\ accessing[t].pc = "waiting"
    /\ LockFree(_registry_lock)
    /\ _registry_lock' = t
    /\ accessing' = [accessing EXCEPT ![t].pc = "locked"]
    /\ UNCHANGED <<registryFile, expectedRegistry, nAccesses>>
    /\ UNCHANGED exceptAccess

\* open(REGISTRY_FILE); json.load
AccessLoad(t) ==
    /\ accessing[t].pc = "locked"
    /\ accessing' = [accessing EXCEPT ![t].pc = "loaded", ![t].agents = registryFile]
    /\ UNCHANGED <<registryFile, _registry_lock, expectedRegistry, nAccesses>>
    /\ UNCHANGED exceptAccess

\* the loaded list is changed and written back (_atomic_write_json), or returned
\* (_read_registry), and the lock released
AccessFinish(t) ==
    /\ accessing[t].pc = "loaded"
    /\ LET a == accessing[t]
       IN  IF a.op \in Mutations
           THEN /\ registryFile' = Mutated(a.agents, a.op, a.id)
                /\ expectedRegistry' = Mutated(expectedRegistry, a.op, a.id)
           ELSE UNCHANGED <<registryFile, expectedRegistry>>
    /\ _registry_lock' = 0
    /\ accessing' = [accessing EXCEPT ![t] = [pc |-> "idle", op |-> "none", id |-> "none", agents |-> <<>>]]
    /\ UNCHANGED nAccesses
    /\ UNCHANGED exceptAccess

\* get_config, lines 33-36: if REGISTRY_FILE.exists(): with open(REGISTRY_FILE)
ConfigOpen(t) ==
    /\ accessing[t].pc = "idle"
    /\ nAccesses < MaxAccesses
    /\ accessing' = [accessing EXCEPT ![t] = [pc |-> "open", op |-> "config", id |-> "none", agents |-> <<>>]]
    /\ nAccesses' = nAccesses + 1
    /\ UNCHANGED <<registryFile, _registry_lock, expectedRegistry>>
    /\ UNCHANGED exceptAccess

\* get_config, line 37: agents_count = len(json.load(f))
ConfigLoad(t) ==
    /\ accessing[t].pc = "open"
    /\ accessing' = [accessing EXCEPT ![t] = [pc |-> "idle", op |-> "none", id |-> "none", agents |-> <<>>]]
    /\ UNCHANGED <<registryFile, _registry_lock, expectedRegistry, nAccesses>>
    /\ UNCHANGED exceptAccess

AccessNext ==
    \/ \E t \in AccessThreads : AccessBegin(t)
    \/ \E t \in AccessThreads : AccessAcquire(t)
    \/ \E t \in AccessThreads : AccessLoad(t)
    \/ \E t \in AccessThreads : AccessFinish(t)
    \/ \E t \in AccessThreads : ConfigOpen(t)
    \/ \E t \in AccessThreads : ConfigLoad(t)

InitAccess ==
    StoreInit /\ AtomicIdle /\ RaceIdle /\ MaskIdle /\ HookIdle /\ GuardIdle /\ ResumeIdle /\ OrderIdle /\ BroadcastIdle /\ ReadIdle
              /\ AuthIdle /\ NormIdle /\ EvalIdle /\ RunIdle /\ ExecIdle /\ RegistryInit

SpecAccess == InitAccess /\ [][AccessNext]_vars

\* C37: a thread that has the registry file open, to read or to write it, holds
\* the registry lock, and no mutation is lost: the file is what the mutations
\* make when applied one after another in the order they were written.
C37_RegistryOnlyUnderLock ==
    /\ \A t \in AccessThreads :
          accessing[t].pc \in {"locked", "loaded", "open"} => _registry_lock = t
    /\ registryFile = expectedRegistry

====
